---- MODULE Spec2Model ----
(***************************************************************************)
(* Kernel fusion of cupy (cupy/core/fusion.py): the Fusion facade with its *)
(* per-signature memo, the thread-local active history, and the tracer     *)
(* (_FusionHistory) that records intercepted ufunc and reduction calls.    *)
(***************************************************************************)
EXTENDS Integers, Sequences, FiniteSets, TLC

(***************************************************************************)
(* Bounds of the model.                                                    *)
(***************************************************************************)
\* user-level steps (calls, ufuncs, reductions, raises) a thread may take
MaxSteps == 3
\* user-level steps of each of two concurrent threads
MaxConcSteps == 2
\* user-level steps of a thread that traces one function
MaxTraceSteps == 3
\* nesting depth of Fusion.__call__ frames on one thread
MaxDepth == 2
\* user-level steps of a thread that traces a function of one call
MaxShortSteps == 2

Threads == {1, 2}
Fusions == {"f", "g"}

None == <<>>
Some(x) == <<x>>

Range(s) == {s[i] : i \in DOMAIN s}
SetMax(S) == CHOOSE x \in S : \A y \in S : y <= x
SetMin(S) == CHOOSE x \in S : \A y \in S : x <= y

(***************************************************************************)
(* dtypes.  'q' and 'Q' of _dtype_list are the same dtypes as 'l' and 'L'  *)
(* and are not listed twice.                                               *)
(***************************************************************************)
_dtype_list == <<"?", "b", "h", "i", "l", "B", "H", "I", "L",
                 "e", "f", "d", "F", "D">>

DTypes == Range(_dtype_list)

\* numpy.dtype.kind
Kind(d) ==
    CASE d = "?" -> "b"
      [] d \in {"b", "h", "i", "l"} -> "i"
      [] d \in {"B", "H", "I", "L"} -> "u"
      [] d \in {"e", "f", "d"} -> "f"
      [] d \in {"F", "D"} -> "c"

\* numpy.dtype.itemsize
ItemSize(d) ==
    CASE d \in {"?", "b", "B"} -> 1
      [] d \in {"h", "H", "e"} -> 2
      [] d \in {"i", "I", "f"} -> 4
      [] d \in {"l", "L", "d", "F"} -> 8
      [] d = "D" -> 16

_kind_score(k) ==
    CASE k = "b" -> 0
      [] k \in {"u", "i"} -> 1
      [] k \in {"f", "c"} -> 2

\* integers a floating type of the given size represents exactly
FloatHolds(intsize, floatsize) ==
    \/ floatsize >= 8
    \/ floatsize >= 2 * intsize

\* numpy.can_cast(from, to) under the default 'safe' rule
CanCast(from, to) ==
    LET kf == Kind(from)
        kt == Kind(to)
        sf == ItemSize(from)
        st == ItemSize(to)
    IN  CASE kf = "b" -> TRUE
          [] kf = "u" ->
                CASE kt = "u" -> sf <= st
                  [] kt = "i" -> sf < st
                  [] kt = "f" -> FloatHolds(sf, st)
                  [] kt = "c" -> FloatHolds(sf, st \div 2)
                  [] OTHER -> FALSE
          [] kf = "i" ->
                CASE kt = "i" -> sf <= st
                  [] kt = "f" -> FloatHolds(sf, st)
                  [] kt = "c" -> FloatHolds(sf, st \div 2)
                  [] OTHER -> FALSE
          [] kf = "f" ->
                CASE kt = "f" -> sf <= st
                  [] kt = "c" -> sf <= st \div 2
                  [] OTHER -> FALSE
          [] kf = "c" -> kt = "c" /\ sf <= st

KindOrder(k) ==
    CASE k = "b" -> 0
      [] k = "u" -> 1
      [] k = "i" -> 2
      [] k = "f" -> 3
      [] k = "c" -> 4

\* numpy.can_cast(from, to, 'same_kind')
CanCastSameKind(from, to) ==
    \/ CanCast(from, to)
    \/ KindOrder(Kind(from)) <= KindOrder(Kind(to))

(***************************************************************************)
(* Host scalars.  A scalar is its host type and its value: ty is "bool",   *)
(* "int", "float" or "complex" for a primitive, and a dtype character for  *)
(* a numpy.generic of that dtype.  Integer values are themselves; floating *)
(* values are kept as twice their value (3 is 1.5).                        *)
(***************************************************************************)
\* numpy.dtype(type(arg)) of a host scalar
TypeDType(ty) ==
    CASE ty = "bool" -> "?"
      [] ty = "int" -> "l"
      [] ty = "float" -> "d"
      [] ty = "complex" -> "D"
      [] OTHER -> ty

\* numpy.min_scalar_type of a scalar value, with numpy's small-unsigned flag
MinScalarType(c) ==
    LET k == Kind(TypeDType(c.ty))
    IN  CASE k = "b" -> [dtype |-> "?", small |-> FALSE]
          [] k = "f" -> [dtype |-> "e", small |-> FALSE]
          [] k = "c" -> [dtype |-> "F", small |-> FALSE]
          [] OTHER ->
                IF c.v >= 0
                THEN CASE c.v <= 255 -> [dtype |-> "B", small |-> c.v <= 127]
                       [] c.v <= 65535 ->
                            [dtype |-> "H", small |-> c.v <= 32767]
                       [] OTHER -> [dtype |-> "I", small |-> c.v <= 2147483647]
                ELSE CASE c.v >= -128 -> [dtype |-> "b", small |-> FALSE]
                       [] c.v >= -32768 -> [dtype |-> "h", small |-> FALSE]
                       [] OTHER -> [dtype |-> "i", small |-> FALSE]

UnsignedToSigned(d) ==
    CASE d = "B" -> "b"
      [] d = "H" -> "h"
      [] d = "I" -> "i"
      [] d = "L" -> "l"
      [] OTHER -> d

\* numpy.can_cast(scalar_value, to): the value, not the dtype, is tested
CanCastValue(c, to) ==
    LET m == MinScalarType(c)
        from == IF m.small /\ Kind(to) # "u"
                THEN UnsignedToSigned(m.dtype) ELSE m.dtype
    IN  \/ TypeDType(c.ty) = to
        \/ CanCast(from, to)

\* arg.dtype.type(0): zero of a dtype, a numpy.generic
ZeroOf(d) == [ty |-> d, v |-> 0]

(***************************************************************************)
(* Ufunc and reduction descriptors: the ufuncs the traced functions call.  *)
(* ops is the overload table in its declared order.                        *)
(***************************************************************************)
ArithTypes == <<"?", "b", "B", "h", "H", "i", "I", "l", "L",
                "e", "f", "d", "F", "D">>

\* cupy.add: '??->?', 'bb->b', 'BB->B', ..., 'DD->D'
add_ufunc ==
    [name |-> "cupy_add", nin |-> 2, nout |-> 1, preamble |-> "",
     ops |-> [k \in DOMAIN ArithTypes |->
                [ins |-> <<ArithTypes[k], ArithTypes[k]>>,
                 outs |-> <<ArithTypes[k]>>,
                 body |-> IF ArithTypes[k] = "?" THEN "out0 = in0 | in1"
                          ELSE "out0 = in0 + in1"]]]

\* cupy.copy: '?->?', 'b->b', ..., 'D->D'
copy_ufunc ==
    [name |-> "cupy_copy", nin |-> 1, nout |-> 1, preamble |-> "",
     ops |-> [k \in DOMAIN ArithTypes |->
                [ins |-> <<ArithTypes[k]>>,
                 outs |-> <<ArithTypes[k]>>,
                 body |-> "out0 = in0"]]]

IntTypes == <<"?", "b", "B", "h", "H", "i", "I", "l", "L">>

\* cupy.bitwise_and: '??->?', 'bb->b', 'BB->B', ..., 'LL->L': no float overload
bitwise_and_ufunc ==
    [name |-> "cupy_bitwise_and", nin |-> 2, nout |-> 1, preamble |-> "",
     ops |-> [k \in DOMAIN IntTypes |->
                [ins |-> <<IntTypes[k], IntTypes[k]>>,
                 outs |-> <<IntTypes[k]>>,
                 body |-> "out0 = in0 & in1"]]]

\* cupy.clip: '???->?', 'bbb->b', 'BBB->B', ..., 'ddd->d': three inputs, no
\* complex overload
clip_ufunc ==
    [name |-> "cupy_clip", nin |-> 3, nout |-> 1, preamble |-> "",
     ops |-> [k \in 1..12 |->
                [ins |-> <<ArithTypes[k], ArithTypes[k], ArithTypes[k]>>,
                 outs |-> <<ArithTypes[k]>>,
                 body |-> "out0 = in0 < in1 ? in1 : (in0 > in2 ? in2 : in0)"]]]

SumIn == <<"?", "b", "B", "h", "H", "i", "I", "l", "L", "e", "f", "d", "F", "D">>
SumOut == <<"l", "l", "L", "l", "L", "l", "L", "l", "L", "e", "f", "d", "F", "D">>

\* cupy.sum: '?->l', 'b->l', 'B->L', ..., 'D->D'
sum_reduction ==
    [name |-> "cupy_sum", identity |-> 0, preamble |-> "",
     ops |-> [k \in DOMAIN SumIn |->
                [in |-> SumIn[k], out |-> SumOut[k],
                 impl |-> <<"in0", "a + b", "out0 = type_out0_raw(a)",
                            IF SumIn[k] = "e" THEN Some("float") ELSE None>>]]]

\* cupy.all: '?->?', 'B->?', 'h->?', ..., 'f->?', 'd->?': no complex overload;
\* its identity is true
AllIn == <<"?", "B", "h", "H", "i", "I", "l", "L", "f", "d">>

all_reduction ==
    [name |-> "cupy_all", identity |-> 1, preamble |-> "",
     ops |-> [k \in DOMAIN AllIn |->
                [in |-> AllIn[k], out |-> "?",
                 impl |-> <<"in0", "a & b", "out0 = a", Some("bool")>>]]]

(***************************************************************************)
(* _FusionVarCUDA, _Submodule, _FusionOp and the shadow values.            *)
(* A history keeps its variable objects in vars, in the order they were    *)
(* created; param_list, local_list, ... and the shadows refer to a         *)
(* variable by its position in vars.  by is the thread whose call created  *)
(* the object.                                                             *)
(***************************************************************************)
_FusionVarCUDA(index, dtype, const, t) ==
    [index |-> index, dtype |-> dtype, const |-> const, mutable |-> FALSE,
     by |-> t]

\* _FusionVarScalar (ndim = -1) and _FusionVarArray (ndim >= 0)
_FusionVar(h, ref, ndim, is_postmap) ==
    [var |-> ref, dtype |-> h.vars[ref].dtype, ndim |-> ndim,
     post |-> is_postmap]

IsArrayVar(s) == s.ndim >= 0

_Submodule(ufunc, in_params, out_params, op) ==
    [name |-> ufunc.name, in_params |-> in_params, out_params |-> out_params,
     op |-> op, preamble |-> ufunc.preamble,
     dtypes |-> [i \in 1..(Len(in_params) + Len(out_params)) |->
                    (in_params \o out_params)[i][1]]]

\* a key that does not tell submodules apart
OneKey(subm) == <<"", <<>>>>

\* _Submodule.key
SubmoduleKey(subm) == <<subm.name, subm.dtypes>>

\* an operation that lists its outputs before its inputs
OutputsFirst(index, submodule, args, t) ==
    [index |-> index, submodule |-> submodule,
     args |-> SubSeq(args, Len(submodule.in_params) + 1, Len(args))
              \o SubSeq(args, 1, Len(submodule.in_params)),
     by |-> t]

_FusionOp(index, submodule, args, t) ==
    [index |-> index, submodule |-> submodule, args |-> args, by |-> t]

(***************************************************************************)
(* _FusionHistory                                                          *)
(***************************************************************************)
NewHistory ==
    [preamble_set |-> {}, submodules |-> <<>>, count |-> 0, vars |-> <<>>,
     op_list |-> <<>>, param_list |-> <<>>, local_list |-> <<>>,
     reduce_op |-> None, reduce_identity |-> None, reduce_kwargs |-> None,
     postmap_op_list |-> <<>>, premap_ret |-> None, postmap_param |-> None,
     postmap_local_list |-> <<>>, ndim |-> None]

_has_reduction(h) == h.reduce_op # None

\* an allocator that hands the same index out again
StaleIndex(h) == [res |-> h.count, h |-> h]

_fresh_index(h) == [res |-> h.count, h |-> [h EXCEPT !.count = @ + 1]]

_fresh_premap_param(h, dtype, t) ==
    LET i == _fresh_index(h)
        ref == Len(h.vars) + 1
    IN  [h |-> [i.h EXCEPT
                  !.vars = Append(@, _FusionVarCUDA(i.res, dtype, None, t)),
                  !.param_list = Append(@, ref)],
         ref |-> ref]

_fresh_postmap_param(h, dtype, t) ==
    LET i == _fresh_index(h)
        ref == Len(h.vars) + 1
    IN  [h |-> [i.h EXCEPT
                  !.vars = Append(@, _FusionVarCUDA(i.res, dtype, None, t)),
                  !.postmap_param = Some(ref)],
         ref |-> ref]

_fresh_premap_local(h, dtype, const, t) ==
    LET i == _fresh_index(h)
        ref == Len(h.vars) + 1
    IN  [h |-> [i.h EXCEPT
                  !.vars = Append(@, _FusionVarCUDA(i.res, dtype, const, t)),
                  !.local_list = Append(@, ref)],
         ref |-> ref]

_fresh_postmap_local(h, dtype, const, t) ==
    LET i == _fresh_index(h)
        ref == Len(h.vars) + 1
    IN  [h |-> [i.h EXCEPT
                  !.vars = Append(@, _FusionVarCUDA(i.res, dtype, const, t)),
                  !.postmap_local_list = Append(@, ref)],
         ref |-> ref]

_fresh_local(h, dtype, const, t) ==
    IF _has_reduction(h)
    THEN _fresh_postmap_local(h, dtype, const, t)
    ELSE _fresh_premap_local(h, dtype, const, t)

DictPut(d, k, v) == [x \in (DOMAIN d) \cup {k} |-> IF x = k THEN v ELSE d[x]]

_add_premap_op(h, subm, args, t) ==
    [h EXCEPT
       !.submodules = DictPut(@, SubmoduleKey(subm), subm),
       !.op_list = Append(@, _FusionOp(Len(h.op_list), subm, args, t)),
       !.preamble_set = @ \cup {subm.preamble}]

_add_postmap_op(h, subm, args, t) ==
    [h EXCEPT
       !.submodules = DictPut(@, SubmoduleKey(subm), subm),
       !.postmap_op_list =
           Append(@, _FusionOp(Len(h.postmap_op_list), subm, args, t)),
       !.preamble_set = @ \cup {subm.preamble}]

\* a recorder that stays in the pre-map phase
AlwaysPremap(h, subm, args, t) == _add_premap_op(h, subm, args, t)

add_op(h, subm, args, t) ==
    IF _has_reduction(h)
    THEN _add_postmap_op(h, subm, args, t)
    ELSE _add_premap_op(h, subm, args, t)

(***************************************************************************)
(* Values a traced function passes to a ufunc: a shadow, a host scalar     *)
(* (lit) or an object of another type (obj).                               *)
(***************************************************************************)
ShadowArg(s) == [t |-> "shadow", s |-> s]
LitArg(ty, v) == [t |-> "lit", c |-> [ty |-> ty, v |-> v]]
ObjArg == [t |-> "obj"]

Failed(h, err) == [h |-> h, err |-> err, ret |-> <<>>]

\* _get_fusion_var: the shadow of an argument, lifting host scalars to
\* constant locals
\* a lift that accepts a shadow of either phase
AnyPhase(h, arg, t) ==
    IF arg.t = "shadow"
    THEN [h |-> h, err |-> "none", ret |-> <<arg.s>>]
    ELSE IF arg.t = "lit"
    THEN LET r == _fresh_local(h, TypeDType(arg.c.ty), Some(arg.c), t)
         IN  [h |-> r.h, err |-> "none",
              ret |-> <<_FusionVar(r.h, r.ref, -1, _has_reduction(r.h))>>]
    ELSE Failed(h, "Exception")

_get_fusion_var(h, arg, t) ==
    IF arg.t = "shadow"
    THEN IF arg.s.post = _has_reduction(h)
         THEN [h |-> h, err |-> "none", ret |-> <<arg.s>>]
         ELSE Failed(h, "Exception")
    ELSE IF arg.t = "lit"
    THEN LET r == _fresh_local(h, TypeDType(arg.c.ty), Some(arg.c), t)
         IN  [h |-> r.h, err |-> "none",
              ret |-> <<_FusionVar(r.h, r.ref, -1, _has_reduction(r.h))>>]
    ELSE Failed(h, "Exception")

\* [self._get_fusion_var(_) for _ in args], left to right
RECURSIVE GetFusionVars(_, _, _)
GetFusionVars(h, args, t) ==
    IF args = <<>>
    THEN [h |-> h, err |-> "none", ret |-> <<>>]
    ELSE LET r == _get_fusion_var(h, Head(args), t)
         IN  IF r.err # "none"
             THEN r
             ELSE LET rest == GetFusionVars(r.h, Tail(args), t)
                  IN  [h |-> rest.h, err |-> rest.err,
                       ret |-> IF rest.err = "none"
                               THEN r.ret \o rest.ret ELSE <<>>]

(***************************************************************************)
(* _FusionHistory.call_ufunc                                               *)
(***************************************************************************)
\* a resolution that never takes scalar values into account
NeverMinScalar(in_args) == FALSE

\* which typecast rule to use
_should_use_min_scalar(in_args) ==
    LET array_kinds == {_kind_score(Kind(in_args[i].dtype)) :
                          i \in {j \in DOMAIN in_args : IsArrayVar(in_args[j])}}
        scalar_kinds == {_kind_score(Kind(in_args[i].dtype)) :
                          i \in {j \in DOMAIN in_args : ~IsArrayVar(in_args[j])}}
        max_array_kind == SetMax(array_kinds \cup {-2})
        max_scalar_kind == SetMax(scalar_kinds \cup {-1})
    IN  max_scalar_kind # -1 /\ max_array_kind >= max_scalar_kind

\* a scalar tested by zero of its dtype whatever its constant
ZeroAlways(h, arg) == ZeroOf(arg.dtype)

\* the scalar value can_cast1 tests: the constant, or zero of the dtype
ScalarValue(h, arg) ==
    IF h.vars[arg.var].const = None
    THEN ZeroOf(arg.dtype)
    ELSE h.vars[arg.var].const[1]

can_cast1(h, args, in_dtypes, nin) ==
    \A i \in 1..nin :
        IF IsArrayVar(args[i])
        THEN CanCast(args[i].dtype, in_dtypes[i])
        ELSE CanCastValue(ScalarValue(h, args[i]), in_dtypes[i])

can_cast2(h, args, in_dtypes, nin) ==
    \A i \in 1..nin : CanCast(args[i].dtype, in_dtypes[i])

can_cast(h, in_vars, in_dtypes, nin) ==
    IF _should_use_min_scalar(in_vars)
    THEN can_cast1(h, in_vars, in_dtypes, nin)
    ELSE can_cast2(h, in_vars, in_dtypes, nin)

\* the overloads of the table that pass the castability test, by position
MatchingOps(h, ufunc, in_vars) ==
    {k \in DOMAIN ufunc.ops : can_cast(h, in_vars, ufunc.ops[k].ins, ufunc.nin)}

\* a resolution that takes the last overload that passes
LastMatch(h, ufunc, in_vars) == SetMax(MatchingOps(h, ufunc, in_vars))

\* the first overload that passes
ResolveOp(h, ufunc, in_vars) == SetMin(MatchingOps(h, ufunc, in_vars))

\* an output that is never marked
NoMutate(h, ref) == h

\* out_var._var.mutate()
Mutate(h, ref) == [h EXCEPT !.vars[ref].mutable = TRUE]

\* the loop over range(nout): st is [h, err, out_vars, ret]
RECURSIVE MakeOutputs(_, _, _, _, _, _)
MakeOutputs(st, out_dtypes, i, nout, ndim, t) ==
    IF i > nout \/ st.err # "none"
    THEN st
    ELSE IF i > Len(st.out_vars)
    THEN LET r == _fresh_local(st.h, out_dtypes[i], None, t)
             out_var == _FusionVar(r.h, r.ref, ndim, _has_reduction(r.h))
         IN  MakeOutputs([h |-> Mutate(r.h, r.ref), err |-> "none",
                          out_vars |-> Append(st.out_vars, out_var),
                          ret |-> Append(st.ret, out_var)],
                         out_dtypes, i + 1, nout, ndim, t)
    ELSE IF CanCastSameKind(out_dtypes[i], st.out_vars[i].dtype)
    THEN MakeOutputs([h |-> Mutate(st.h, st.out_vars[i].var), err |-> "none",
                      out_vars |-> st.out_vars,
                      ret |-> Append(st.ret, st.out_vars[i])],
                     out_dtypes, i + 1, nout, ndim, t)
    ELSE [st EXCEPT !.err = "TypeError"]

\* typecast and add an operation, once the overload is resolved
RecordUfunc(h, ufunc, in_vars, out_vars, ndim, t) ==
    LET ov == ufunc.ops[ResolveOp(h, ufunc, in_vars)]
        st == MakeOutputs([h |-> h, err |-> "none", out_vars |-> out_vars,
                           ret |-> <<>>],
                          ov.outs, 1, ufunc.nout, ndim, t)
        in_params == [i \in DOMAIN in_vars |-> <<ov.ins[i], <<"in", i - 1>>>>]
        out_params == [i \in DOMAIN st.out_vars |->
                          <<ov.outs[i], <<"out", i - 1>>>>]
        subm == _Submodule(ufunc, in_params, out_params, ov.body)
        vs == in_vars \o st.out_vars
    IN  IF st.err # "none"
        THEN Failed(st.h, st.err)
        ELSE [h |-> add_op(st.h, subm, [i \in DOMAIN vs |-> vs[i].var], t),
              err |-> "none", ret |-> st.ret]

\* a check that lets every output through
AlwaysBroadcastable(out_vars, ndim) == FALSE

\* len(out_vars) >= 1 and min(v.ndim for v in out_vars) < ndim
NonBroadcastable(out_vars, ndim) ==
    /\ Len(out_vars) >= 1
    /\ SetMin({out_vars[i].ndim : i \in DOMAIN out_vars}) < ndim

\* a check that lets every output through, scalars among them
AnyOutput(out_vars) == FALSE

\* any(not isinstance(v, _FusionVarArray) for v in out_vars)
NonArrayOutput(out_vars) ==
    \E i \in DOMAIN out_vars : ~IsArrayVar(out_vars[i])

\* kwargs is [out |-> None or Some(arg), extra |-> whether other keywords
\* are given]
call_ufunc(h, ufunc, args, kwargs, t) ==
    LET nin == ufunc.nin
        nout == ufunc.nout
        lifted == GetFusionVars(h, args \o kwargs.out, t)
        var_list == lifted.ret
        h1 == lifted.h
        in_vars == SubSeq(var_list, 1, nin)
        out_vars == SubSeq(var_list, nin + 1, Len(var_list))
        ndim == SetMax({var_list[i].ndim : i \in DOMAIN var_list})
    IN  IF lifted.err # "none" THEN Failed(h1, lifted.err)
        ELSE IF kwargs.extra THEN Failed(h1, "TypeError")
        ELSE IF ~(nin <= Len(var_list) /\ Len(var_list) <= nin + nout)
        THEN Failed(h1, "AssertionError")
        ELSE IF NonArrayOutput(out_vars)
        THEN Failed(h1, "TypeError")
        ELSE IF NonBroadcastable(out_vars, ndim)
        THEN Failed(h1, "ValueError")
        ELSE IF MatchingOps(h1, ufunc, in_vars) = {}
        THEN Failed(h1, "TypeError")
        ELSE RecordUfunc(h1, ufunc, in_vars, out_vars, ndim, t)

(***************************************************************************)
(* _FusionHistory.set_reduce_op and the reduction wrapper                  *)
(***************************************************************************)
\* raw is a reduction descriptor, arg a shadow
set_reduce_op(h, raw, arg, kwargs, t) ==
    LET castable == {k \in DOMAIN raw.ops : CanCast(arg.dtype, raw.ops[k].in)}
        op == raw.ops[SetMin(castable)]
        lifted == _get_fusion_var(h, ShadowArg(arg), t)
        h1 == [h EXCEPT !.premap_ret = Some(lifted.ret[1].var),
                        !.reduce_op = Some(op),
                        !.reduce_identity = Some(raw.identity),
                        !.reduce_kwargs = Some(kwargs),
                        !.preamble_set = @ \cup {raw.preamble}]
    IN  IF h.reduce_op # None THEN Failed(h, "AssertionError")
        \* the message of the TypeError reads self.raw, which no history has
        ELSE IF castable = {} THEN Failed(h, "AttributeError")
        ELSE IF lifted.err # "none" THEN Failed(h, lifted.err)
        ELSE IF h1.postmap_param # None THEN Failed(h1, "AssertionError")
        ELSE LET r == _fresh_postmap_param(h1, op.out, t)
             IN  [h |-> r.h, err |-> "none", ret |-> <<r.ref>>]

\* a rank computation that ignores the axis argument
FullReduction(arg, axis) == 0

\* the rank after the reduction; axis is None, or Some of
\* [tuple |-> whether it is a tuple or list, vals |-> its axes]
ReducedNdim(arg, axis) ==
    LET src_ndim == IF arg.ndim > 0 THEN arg.ndim ELSE 0
    IN  IF axis = None THEN 0
        ELSE IF axis[1].tuple THEN src_ndim - Len(axis[1].vals)
        ELSE src_ndim - 1

\* the body of _reduction_wrapper's call when a history is installed:
\* args are the positional arguments, kwargs is [axis, out]
reduction_call(h, fusion_op, args, kwargs, t) ==
    LET arg == args[1]
        r == set_reduce_op(h, fusion_op, arg.s, kwargs, t)
        ndim == ReducedNdim(arg.s, kwargs.axis)
        h2 == [r.h EXCEPT !.ndim = Some(ndim)]
    IN  IF Len(args) # 1 THEN Failed(h, "TypeError")
        ELSE IF arg.t # "shadow" THEN Failed(h, "AttributeError")
        ELSE IF arg.s.post THEN Failed(h, "NotImplementedError")
        ELSE IF r.err # "none" THEN r
        ELSE IF ndim < 0 THEN Failed(r.h, "ValueError")
        ELSE [h |-> h2, err |-> "none",
              ret |-> <<_FusionVar(h2, r.ret[1], IF ndim >= 1 THEN ndim ELSE -1,
                                   TRUE)>>]

(***************************************************************************)
(* Code emission.  A declaration is kept as the fields its text is made    *)
(* of, a kernel as the arguments its constructor is given.                 *)
(***************************************************************************)
\* _FusionVarCUDA.declaration
declaration(v) ==
    IF v.const = None
    THEN [form |-> "plain", ctype |-> v.dtype, index |-> v.index,
          init |-> None]
    ELSE [form |-> "const", ctype |-> v.dtype, index |-> v.index,
          init |-> v.const]

declaration_in_param(v) ==
    [non_const |-> v.mutable, dtype |-> v.dtype, index |-> v.index]

declaration_out_param(v) == [dtype |-> v.dtype, index |-> v.index]

\* _FusionOp.declaration_args and _FusionOp.code of one operation
OpCode(h, op) ==
    [index |-> op.index, call |-> SubmoduleKey(op.submodule),
     temps |-> op.submodule.dtypes,
     args |-> [i \in DOMAIN op.args |-> h.vars[op.args[i]].index],
     writes |-> [i \in 1..(Len(op.args) - Len(op.submodule.in_params)) |->
                  h.vars[op.args[Len(op.submodule.in_params) + i]].index]]

\* a phase emitted without the declarations of its locals
NoLocals(h, locals, ops) ==
    [nops |-> Len(ops), locals |-> <<>>,
     ops |-> [i \in DOMAIN ops |->
                [index |-> ops[i].index,
                 call |-> SubmoduleKey(ops[i].submodule),
                 temps |-> ops[i].submodule.dtypes,
                 args |-> [j \in DOMAIN ops[i].args |->
                             h.vars[ops[i].args[j]].index],
                 writes |-> <<>>]]]

\* the code of a phase: its local declarations, then its operations
PhaseCode(h, locals, ops) ==
    [nops |-> Len(ops),
     locals |-> [i \in DOMAIN locals |-> declaration(h.vars[locals[i]])],
     ops |-> [i \in DOMAIN ops |-> OpCode(h, ops[i])]]

_emit_operation_code(h) == PhaseCode(h, h.local_list, h.op_list)

_emit_submodules_code(h) ==
    [preambles |-> h.preamble_set,
     submodules |-> {h.submodules[k] : k \in DOMAIN h.submodules}]

\* an emission without the final assignments
NoAssign(h, out_cvars, out_params) == <<>>

\* the final assignments 't = s' of out_cvars into out_params
OutAssign(h, out_cvars, out_params) ==
    [i \in 1..SetMin({Len(out_cvars), Len(out_params)}) |->
        [target |-> h.vars[out_params[i]].index,
         source |-> h.vars[out_cvars[i]].index]]

(***************************************************************************)
(* _FusionHistory.get_fusion, in the two parts the call of the user        *)
(* function separates.                                                     *)
(***************************************************************************)
\* in_params = [self._fresh_premap_param(t) for t in in_dtypes]
RECURSIVE FreshParams(_, _, _)
FreshParams(h, dtypes, t) ==
    IF dtypes = <<>>
    THEN [h |-> h, refs |-> <<>>]
    ELSE LET r == _fresh_premap_param(h, Head(dtypes), t)
             rest == FreshParams(r.h, Tail(dtypes), t)
         IN  [h |-> rest.h, refs |-> <<r.ref>> \o rest.refs]

\* up to the call of func: the history and the shadows func is given
get_fusion_begin(h, in_params_info, t) ==
    LET in_dtypes == [i \in DOMAIN in_params_info |-> in_params_info[i][1]]
        in_ndims == [i \in DOMAIN in_params_info |-> in_params_info[i][2]]
        r == FreshParams([h EXCEPT !.ndim = Some(SetMax(Range(in_ndims)))],
                         in_dtypes, t)
    IN  [h |-> r.h,
         in_pvars |-> [i \in DOMAIN in_ndims |->
                         _FusionVar(r.h, r.refs[i], in_ndims[i], FALSE)]]

NotNil(x) == x.t # "nil"
HasDType(x) == x.t = "shadow" \/ (x.t = "lit" /\ x.c.ty \in DTypes)
ValueDType(x) == IF x.t = "shadow" THEN x.s.dtype ELSE x.c.ty

\* the empty keyword dict
NoKwargs == [axis |-> None, out |-> None]

\* a return value is [kind |-> "tuple", "shadow", "none" or "other",
\* items |-> the shadow, or the elements of the tuple]; nin is the number
\* of input parameters
ElementwiseKernel(in_params, out_params, operation, preamble, return_tuple, no_return, name) ==
    [kind |-> "elementwise", in_params |-> in_params,
     out_params |-> out_params, operation |-> operation,
     preamble |-> preamble, return_tuple |-> return_tuple,
     no_return |-> no_return, name |-> name]

ReductionKernel(in_params, out_params, map_expr, reduce_expr, post_map_expr, identity, name, reduce_type, preamble) ==
    [kind |-> "reduction", in_params |-> in_params,
     out_params |-> out_params, map_expr |-> map_expr,
     reduce_expr |-> reduce_expr, post_map_expr |-> post_map_expr,
     identity |-> identity, name |-> name, reduce_type |-> reduce_type,
     preamble |-> preamble]

VarIndices(h, refs) == [i \in DOMAIN refs |-> h.vars[refs[i]].index]

_emit_premap_code(h, in_params, operation) ==
    [params |-> VarIndices(h, in_params), body |-> operation,
     return_var |-> h.vars[h.premap_ret[1]].index]

_emit_postmap_cast_code(reduce_ctype, postmap_dtype, operation) ==
    [reduce_ctype |-> reduce_ctype, postmap_ctype |-> postmap_dtype,
     body |-> operation]

_emit_postmap_code(h, out_params, operation) ==
    [in_param |-> h.vars[h.postmap_param[1]].index,
     params |-> VarIndices(h, out_params), body |-> operation]

\* get_fusion from the emission of the code on: the kernel and the keywords
\* of its launch
EmitKernel(h, in_params, out_params, out_cvars, return_value, name) ==
    LET in_params_code == [i \in DOMAIN in_params |->
                             declaration_in_param(h.vars[in_params[i]])]
        out_params_code == [i \in DOMAIN out_params |->
                              declaration_out_param(h.vars[out_params[i]])]
        assign == OutAssign(h, out_cvars, out_params)
        reduce_op == h.reduce_op[1]
        reduce_ctype == IF reduce_op.impl[4] = None THEN "type_in0_raw"
                        ELSE reduce_op.impl[4][1]
    IN  IF h.reduce_op = None
        THEN <<ElementwiseKernel(
                 in_params_code, out_params_code,
                 [body |-> _emit_operation_code(h), assign |-> assign],
                 _emit_submodules_code(h), return_value.kind = "tuple",
                 return_value.kind = "none", name),
               NoKwargs>>
        ELSE <<ReductionKernel(
                 in_params_code, out_params_code, VarIndices(h, in_params),
                 reduce_op.impl[2], VarIndices(h, out_params),
                 h.reduce_identity[1], name, reduce_ctype,
                 [submodules |-> _emit_submodules_code(h),
                  pre_map |-> _emit_premap_code(h, in_params,
                                                _emit_operation_code(h)),
                  postmap_cast |-> _emit_postmap_cast_code(
                                      reduce_ctype, reduce_op.out,
                                      reduce_op.impl[3]),
                  post_map |-> _emit_postmap_code(
                                  h, out_params,
                                  [body |-> PhaseCode(h, h.postmap_local_list,
                                                      h.postmap_op_list),
                                   assign |-> assign])]),
               h.reduce_kwargs[1]>>

\* out_params = [self._fresh_premap_param(t) for t in out_dtypes], and the
\* emission
AllocOutputs(r, out_cvars, return_value, nin, name) ==
    [h |-> r.h, err |-> "none",
     ret |-> EmitKernel(r.h, SubSeq(r.h.param_list, 1, nin), r.refs,
                        out_cvars, return_value, name)]

\* the shadows returned, lifted
ReturnedVars(lifted, out_pvars, return_value, nin, name, t) ==
    IF lifted.err # "none" THEN Failed(lifted.h, lifted.err)
    ELSE IF \E i \in DOMAIN out_pvars : ~HasDType(out_pvars[i])
    THEN Failed(lifted.h, "AttributeError")
    ELSE AllocOutputs(
             FreshParams(lifted.h,
                         [i \in DOMAIN out_pvars |-> ValueDType(out_pvars[i])],
                         t),
             [i \in DOMAIN lifted.ret |-> lifted.ret[i].var],
             return_value, nin, name)

ReturnedValues(h, out_pvars, return_value, nin, name, t) ==
    ReturnedVars(GetFusionVars(h, out_pvars, t), out_pvars, return_value, nin,
                 name, t)

get_fusion_end(h, return_value, nin, name, t) ==
    IF return_value.kind = "other" THEN Failed(h, "TypeError")
    ELSE ReturnedValues(h, SelectSeq(return_value.items, NotNil),
                        return_value, nin, name, t)

(***************************************************************************)
(* Fusion: the arguments of a call, the memo and the thread-local slot.    *)
(* An argument is [cat, dtype, ndim]: cat is "cupy" (core.ndarray), "host" *)
(* (numpy.ndarray), "generic" (numpy.generic), "prim" (int, float,         *)
(* complex, bool) or "other" (any other type).                             *)
(***************************************************************************)
VARIABLES
    active,   \* _thread_local.history of each slot: None, or Some(t) when
              \* the history object thread t created is installed
    hist,     \* the _FusionHistory object each thread's trace created
    memo,     \* Fusion._memo of each Fusion object
    stack,    \* the Fusion.__call__ frames of each thread, outermost first
    exc,      \* the exception propagating on each thread, or "none"
    pool,     \* the shadows the traced function of each thread holds
    fuel,     \* user-level steps each thread has left
    out,      \* how the last finished Fusion.__call__ of each thread ended
    last,     \* the last step of each thread: what was called, with which
              \* arguments, and where a ufunc or reduction call went
    seen      \* history variable: for each Fusion object, the signatures
              \* compiled successfully since its last clear_cache, with the
              \* arguments and the (kernel, kwargs) of that call

vars == <<active, hist, memo, stack, exc, pool, fuel, out, last, seen>>

\* one attribute slot shared by all threads (a module-level global)
SharedSlot(t) == 1

\* threading.local(): each thread has its own attribute slot
Slot(t) == t

\* hasattr(_thread_local, 'history')
HasHistory(t) == active[Slot(t)] # None

\* a Fusion.__call__ that never takes itself for an inner call
NeverInner(t) == FALSE

\* if hasattr(_thread_local, 'history'): return self.func(...)
IsInnerCall(t) == HasHistory(t)

\* cupy.get_array_module of the arguments is cupy
get_array_module_is_cupy(args) == \E i \in DOMAIN args : args[i].cat = "cupy"

\* a Fusion.__call__ without the host bypass
NeverFailsToFuse(args) == FALSE

\* if cupy.get_array_module(...) is not cupy: return self.func(...)
FailsToFuse(args) == ~get_array_module_is_cupy(args)

acceptable_types == {"cupy", "host", "generic", "prim"}

\* a type check that accepts every argument
NeverInvalid(args) == FALSE

\* if not all(isinstance(_, acceptable_types) for _ in args)
InvalidArgument(args) ==
    \E i \in DOMAIN args : args[i].cat \notin acceptable_types

_get_param_info(arg) ==
    IF arg.cat = "cupy" THEN <<arg.dtype, arg.ndim>>
    ELSE IF arg.cat = "generic" THEN <<arg.dtype, -1>>
    ELSE <<arg.dtype, -1>>

ParamsInfo(args) == [i \in DOMAIN args |-> _get_param_info(args[i])]

\* a lookup that never finds an entry
AlwaysMiss(m, params_info) == TRUE

\* params_info not in self._memo
MemoMiss(m, params_info) == params_info \notin DOMAIN m

Frame(f, kind, at, args) ==
    [f |-> f, kind |-> kind, at |-> at, args |-> args,
     invoked |-> 0, compiled |-> FALSE, installed |-> FALSE]

Top(t) == stack[t][Len(stack[t])]
Push(t, fr) == [stack EXCEPT ![t] = Append(@, fr)]
Pop(t) == [stack EXCEPT ![t] = SubSeq(@, 1, Len(@) - 1)]
SetTop(t, fr) == [stack EXCEPT ![t][Len(stack[t])] = fr]

\* the thread is idle or runs user code (the body of a called function)
Running(t) ==
    /\ exc[t] = "none"
    /\ IF stack[t] = <<>> THEN TRUE ELSE Top(t).at = "func"

\* the thread is inside the tracing section of a Fusion.__call__
InTrace(t) ==
    \E i \in DOMAIN stack[t] :
        stack[t][i].kind = "fused" /\ stack[t][i].at = "func"

Burn(t) == fuel' = [fuel EXCEPT ![t] = @ - 1]

Did(op, fn, args, kwargs, route) ==
    [op |-> op, fn |-> fn, args |-> args, kwargs |-> kwargs, route |-> route]

Note(t, op, fn, args) ==
    last' = [last EXCEPT ![t] = Did(op, fn, args, NoKwargs, "none")]

Finished(fr, how, e, launched) ==
    Some([f |-> fr.f, kind |-> fr.kind, args |-> fr.args, how |-> how,
          exc |-> e, launched |-> launched, invoked |-> fr.invoked,
          compiled |-> fr.compiled, installed |-> fr.installed])

TypeOK ==
    /\ \A t \in Threads : fuel[t] \in Nat
    /\ \A t \in Threads : Len(stack[t]) <= MaxDepth
    /\ \A t \in Threads : active[Slot(t)] \in {None} \cup {Some(u) : u \in Threads}

InitWith(steps) ==
    /\ active = [s \in Threads |-> None]
    /\ hist = [t \in Threads |-> None]
    /\ memo = [f \in Fusions |-> <<>>]
    /\ stack = [t \in Threads |-> <<>>]
    /\ exc = [t \in Threads |-> "none"]
    /\ pool = [t \in Threads |-> {}]
    /\ fuel = steps
    /\ out = [t \in Threads |-> None]
    /\ last = [t \in Threads |-> Did("none", "", <<>>, NoKwargs, "none")]
    /\ seen = [f \in Fusions |-> <<>>]

(***************************************************************************)
(* Fusion.__call__ up to the call of the user function or the launch.      *)
(***************************************************************************)
FusionCall(t, f, args) ==
    /\ Running(t)
    /\ fuel[t] > 0
    /\ Len(stack[t]) < MaxDepth
    /\ Burn(t)
    /\ Note(t, "call", f, args)
    /\ UNCHANGED <<memo, out, seen>>
    /\ IF IsInnerCall(t)
       THEN \* inner function of a composition of fused functions
            /\ stack' = Push(t, [Frame(f, "nested", "func", args)
                                   EXCEPT !.invoked = 1])
            /\ UNCHANGED <<active, hist, exc, pool>>
       ELSE IF FailsToFuse(args)
       THEN \* fails to fuse
            /\ stack' = Push(t, [Frame(f, "host", "func", args)
                                   EXCEPT !.invoked = 1])
            /\ UNCHANGED <<active, hist, exc, pool>>
       ELSE IF InvalidArgument(args)
       THEN /\ stack' = Push(t, Frame(f, "fused", "check", args))
            /\ exc' = [exc EXCEPT ![t] = "TypeError"]
            /\ UNCHANGED <<active, hist, pool>>
       ELSE IF MemoMiss(memo[f], ParamsInfo(args))
       THEN LET b == get_fusion_begin(NewHistory, ParamsInfo(args), t)
            IN  /\ active' = [active EXCEPT ![Slot(t)] = Some(t)]
                /\ hist' = [hist EXCEPT ![t] = Some(b.h)]
                /\ pool' = [pool EXCEPT ![t] = Range(b.in_pvars)]
                /\ stack' = Push(t, [Frame(f, "fused", "func", args)
                                       EXCEPT !.invoked = 1,
                                              !.installed = TRUE])
                /\ UNCHANGED exc
       ELSE /\ stack' = Push(t, Frame(f, "fused", "launch", args))
            /\ UNCHANGED <<active, hist, exc, pool>>

(***************************************************************************)
(* _ufunc_wrapper and _reduction_wrapper: a ufunc or reduction called by   *)
(* user code.  The history a call records into is the one installed in the *)
(* calling thread's slot.                                                  *)
(***************************************************************************)
\* the thread whose history object _thread_local.history is
Installed(t) == active[Slot(t)][1]

Traced(t, r) ==
    /\ hist' = [hist EXCEPT ![Installed(t)] = Some(r.h)]
    /\ exc' = [exc EXCEPT ![t] = r.err]
    /\ pool' = [pool EXCEPT ![t] = @ \cup Range(r.ret)]
    /\ UNCHANGED <<active, memo, stack, out, seen>>

Untraced(t) ==
    /\ UNCHANGED <<active, hist, memo, stack, exc, pool, out, seen>>

UfuncCall(t, ufunc, args, kwargs) ==
    /\ Running(t)
    /\ fuel[t] > 0
    /\ Burn(t)
    /\ IF ~HasHistory(t)
       THEN /\ Untraced(t)
            /\ last' = [last EXCEPT ![t] =
                          Did("ufunc", ufunc.name, args, kwargs, "runtime")]
       ELSE /\ Traced(t, call_ufunc(hist[Installed(t)][1], ufunc, args,
                                    kwargs, t))
            /\ last' = [last EXCEPT ![t] =
                          Did("ufunc", ufunc.name, args, kwargs, "trace")]

ReductionCall(t, fusion_op, args, kwargs) ==
    /\ Running(t)
    /\ fuel[t] > 0
    /\ Burn(t)
    /\ IF ~HasHistory(t)
       THEN /\ Untraced(t)
            /\ last' = [last EXCEPT ![t] =
                          Did("reduction", fusion_op.name, args, kwargs,
                              "runtime")]
       ELSE /\ Traced(t, reduction_call(hist[Installed(t)][1], fusion_op,
                                        args, kwargs, t))
            /\ last' = [last EXCEPT ![t] =
                          Did("reduction", fusion_op.name, args, kwargs,
                              "trace")]

\* the user function raises an error of its own
UserRaise(t) ==
    /\ Running(t)
    /\ stack[t] # <<>>
    /\ fuel[t] > 0
    /\ Burn(t)
    /\ Note(t, "raise", "", <<>>)
    /\ exc' = [exc EXCEPT ![t] = "UserError"]
    /\ UNCHANGED <<active, hist, memo, stack, pool, out, seen>>

(***************************************************************************)
(* The user function returns: the rest of get_fusion, the store into the   *)
(* memo and the finally clause of Fusion.__call__ (fused), or the return   *)
(* of the call of self.func (nested, host).                                *)
(***************************************************************************)
\* a store that does not wait for get_fusion to return normally
MemoPutAlways(m, params_info, r) == DictPut(m, params_info, r.ret)

\* self._memo[params_info] = history.get_fusion(...): the assignment is
\* skipped when get_fusion raises
MemoPut(m, params_info, r) ==
    IF r.err = "none" THEN DictPut(m, params_info, r.ret) ELSE m

\* an exception path without a finally clause
NoFinally(a, t) == a

\* finally: del _thread_local.history
Finally(a, t) == [a EXCEPT ![Slot(t)] = None]

FuncReturn(t, return_value) ==
    /\ Running(t)
    /\ stack[t] # <<>>
    /\ Note(t, "return", return_value.kind, return_value.items)
    /\ UNCHANGED fuel
    /\ IF Top(t).kind # "fused"
       THEN /\ stack' = Pop(t)
            /\ out' = [out EXCEPT ![t] = Finished(Top(t), "returned", "none",
                                                  None)]
            /\ UNCHANGED <<active, hist, memo, exc, pool, seen>>
       ELSE LET fr == Top(t)
                r == get_fusion_end(hist[t][1], return_value, Len(fr.args),
                                    fr.f, t)
            IN  /\ memo' = [memo EXCEPT ![fr.f] =
                              MemoPut(@, ParamsInfo(fr.args), r)]
                /\ IF r.err # "none"
                   THEN /\ hist' = [hist EXCEPT ![t] = Some(r.h)]
                        /\ exc' = [exc EXCEPT ![t] = r.err]
                        /\ UNCHANGED <<active, stack, pool, out, seen>>
                   ELSE /\ seen' = [seen EXCEPT ![fr.f] =
                                      DictPut(@, ParamsInfo(fr.args),
                                              [args |-> fr.args,
                                               entry |-> r.ret])]
                        /\ active' = Finally(active, t)
                        /\ hist' = [hist EXCEPT ![t] = None]
                        /\ pool' = [pool EXCEPT ![t] = {}]
                        /\ stack' = SetTop(t, [fr EXCEPT !.at = "launch",
                                                         !.compiled = TRUE])
                        /\ UNCHANGED <<exc, out>>

\* kernel, kwargs = self._memo[params_info]; the kernel is launched
Launch(t) ==
    /\ exc[t] = "none"
    /\ stack[t] # <<>>
    /\ Top(t).at = "launch"
    /\ Note(t, "launch", "", <<>>)
    /\ UNCHANGED <<active, hist, memo, pool, fuel, seen>>
    /\ LET fr == Top(t)
           params_info == ParamsInfo(fr.args)
       IN  IF params_info \in DOMAIN memo[fr.f]
           THEN /\ stack' = Pop(t)
                /\ out' = [out EXCEPT ![t] =
                             Finished(fr, "returned", "none",
                                      Some(memo[fr.f][params_info]))]
                /\ UNCHANGED exc
           ELSE /\ exc' = [exc EXCEPT ![t] = "KeyError"]
                /\ UNCHANGED <<stack, out>>

\* an exception leaves the innermost Fusion.__call__ frame; the frame of a
\* trace runs its finally clause
Unwind(t) ==
    /\ exc[t] # "none"
    /\ stack[t] # <<>>
    /\ Note(t, "unwind", "", <<>>)
    /\ stack' = Pop(t)
    /\ out' = [out EXCEPT ![t] = Finished(Top(t), "raised", exc[t], None)]
    /\ exc' = [exc EXCEPT ![t] = IF Len(stack[t]) = 1 THEN "none" ELSE @]
    /\ IF Top(t).kind = "fused" /\ Top(t).at = "func"
       THEN /\ active' = Finally(active, t)
            /\ hist' = [hist EXCEPT ![t] = None]
            /\ pool' = [pool EXCEPT ![t] = {}]
       ELSE UNCHANGED <<active, hist, pool>>
    /\ UNCHANGED <<memo, fuel, seen>>

\* Fusion.clear_cache
clear_cache(t, f) ==
    /\ Running(t)
    /\ fuel[t] > 0
    /\ Burn(t)
    /\ Note(t, "clear", f, <<>>)
    /\ memo' = [memo EXCEPT ![f] = <<>>]
    /\ seen' = [seen EXCEPT ![f] = <<>>]
    /\ UNCHANGED <<active, hist, stack, exc, pool, out>>

(***************************************************************************)
(* Operations of user code on a shadow other than ufunc calls.             *)
(***************************************************************************)
\* bool(x), "if x:": __nonzero__ and __bool__ raise Exception
__bool__(t, x) ==
    /\ Running(t)
    /\ x \in pool[t]
    /\ fuel[t] > 0
    /\ Burn(t)
    /\ last' = [last EXCEPT ![t] =
                  Did("bool", "", <<ShadowArg(x)>>, NoKwargs, "trace")]
    /\ exc' = [exc EXCEPT ![t] = "Exception"]
    /\ UNCHANGED <<active, hist, memo, stack, pool, out, seen>>

\* x[0]: neither shadow class defines __getitem__, so the interpreter
\* raises TypeError (object is not subscriptable)
GetItem(t, x) ==
    /\ Running(t)
    /\ x \in pool[t]
    /\ fuel[t] > 0
    /\ Burn(t)
    /\ last' = [last EXCEPT ![t] =
                  Did("getitem", "", <<ShadowArg(x)>>, NoKwargs, "trace")]
    /\ exc' = [exc EXCEPT ![t] = "TypeError"]
    /\ UNCHANGED <<active, hist, memo, stack, pool, out, seen>>

\* the index forms of an assignment x[slices] = value
IndexForms == {"Ellipsis", "slice(None)", "0"}

\* x[...] = value and x[:] = value are cupy.copy(value, x); any other index
\* raises ValueError
__setitem__(t, x, slices, value) ==
    /\ x \in pool[t]
    /\ IF slices \in {"Ellipsis", "slice(None)"}
       THEN UfuncCall(t, copy_ufunc, <<value, ShadowArg(x)>>,
                      [out |-> None, extra |-> FALSE])
       ELSE /\ Running(t)
            /\ fuel[t] > 0
            /\ Burn(t)
            /\ last' = [last EXCEPT ![t] =
                          Did("setitem", slices, <<value, ShadowArg(x)>>,
                              NoKwargs, "trace")]
            /\ exc' = [exc EXCEPT ![t] = "ValueError"]
            /\ UNCHANGED <<active, hist, memo, stack, pool, out, seen>>

(***************************************************************************)
(* The calls user code makes.  A world W names what the program of a run   *)
(* may do: the Fusion objects it calls and with which argument tuples, the *)
(* host scalars it passes to ufuncs, whether it passes output arguments or *)
(* unknown keywords, and whether it returns tuples.                        *)
(***************************************************************************)
Cupy(dtype, ndim) == [cat |-> "cupy", dtype |-> dtype, ndim |-> ndim]
CupyInt32 == Cupy("i", 1)
HostFloat64 == [cat |-> "host", dtype |-> "d", ndim |-> 1]
GenericFloat64 == [cat |-> "generic", dtype |-> "d", ndim |-> 0]
PrimInt == [cat |-> "prim", dtype |-> TypeDType("int"), ndim |-> 0]
OtherObject == [cat |-> "other", dtype |-> "O", ndim |-> 0]

Axes == {None, Some([tuple |-> FALSE, vals |-> <<0>>]),
         Some([tuple |-> TRUE, vals |-> <<0, 1>>])}

Shadows(t) == {ShadowArg(s) : s \in pool[t]}

\* the positional arguments of a ufunc call: its inputs, and possibly an
\* output
UfuncArgs(t, ufunc, W) ==
    IF ~HasHistory(t) THEN {<<>>}
    ELSE LET vals == Shadows(t) \cup W.lits
             ins == IF ufunc.nin = 1 THEN {<<a>> : a \in vals}
                    ELSE IF ufunc.nin = 2 THEN {<<a, b>> : a, b \in vals}
                    ELSE {<<a, b, c>> : a, b, c \in vals}
         IN  ins \cup {i \o <<o>> : i \in ins,
                                    o \in IF W.outs THEN vals ELSE {}}

UfuncKwargs(t, W) ==
    IF ~HasHistory(t) THEN {[out |-> None, extra |-> FALSE]}
    ELSE {[out |-> None, extra |-> e] : e \in W.extras}

ReductionArgs(t, W) ==
    IF ~HasHistory(t) THEN {<<>>}
    ELSE {<<a>> : a \in Shadows(t) \cup W.lits}

ReductionKwargs(t, W) ==
    IF ~HasHistory(t) THEN {NoKwargs}
    ELSE {[axis |-> a, out |-> None] : a \in W.axes}

Nil == [t |-> "nil"]

\* what the user function returns
ReturnValues(t, W) ==
    IF stack[t] = <<>> \/ Top(t).kind # "fused"
    THEN {[kind |-> "none", items |-> <<>>]}
    ELSE {[kind |-> "none", items |-> <<>>], [kind |-> "other", items |-> <<>>]}
         \cup {[kind |-> "shadow", items |-> <<a>>] : a \in Shadows(t)}
         \cup IF W.tuples
              THEN {[kind |-> "tuple", items |-> <<a, b>>] :
                      a \in Shadows(t),
                      b \in Shadows(t) \cup {Nil} \cup W.lits}
              ELSE {}

Step(t, W) ==
    \/ \E f \in W.fusions, args \in W.calls : FusionCall(t, f, args)
    \/ \E ufunc \in W.ufuncs :
         \E args \in UfuncArgs(t, ufunc, W), kwargs \in UfuncKwargs(t, W) :
            UfuncCall(t, ufunc, args, kwargs)
    \/ \E fusion_op \in W.reductions :
         \E args \in ReductionArgs(t, W), kwargs \in ReductionKwargs(t, W) :
            ReductionCall(t, fusion_op, args, kwargs)
    \/ UserRaise(t)
    \/ \E return_value \in ReturnValues(t, W) : FuncReturn(t, return_value)
    \/ Launch(t)
    \/ Unwind(t)
    \/ \E f \in W.fusions : clear_cache(t, f)

\* user code that also converts, indexes and assigns shadows
StepShadow(t, W) ==
    \/ Step(t, W)
    \/ \E x \in pool[t] : __bool__(t, x)
    \/ \E x \in pool[t] : GetItem(t, x)
    \/ \E x \in pool[t], slices \in IndexForms :
         \E value \in Shadows(t) \cup W.lits : __setitem__(t, x, slices, value)

(***************************************************************************)
(* Spec: one thread calling two fused functions with accelerator arrays,   *)
(* host arrays and numeric scalar objects.                                 *)
(***************************************************************************)
World ==
    [fusions |-> Fusions,
     calls |-> {<<CupyInt32>>, <<CupyInt32, HostFloat64>>,
                <<CupyInt32, GenericFloat64>>, <<HostFloat64>>},
     ufuncs |-> {add_ufunc}, reductions |-> {sum_reduction},
     lits |-> {}, outs |-> FALSE, extras |-> {FALSE},
     axes |-> {None}, tuples |-> FALSE]

Init == InitWith([t \in Threads |-> IF t = 1 THEN MaxSteps ELSE 0])

Next == \E t \in Threads : Step(t, World)

Spec == Init /\ [][Next]_vars

(***************************************************************************)
(* SpecArgs: one thread calling one fused function with arguments of every *)
(* type.                                                                   *)
(***************************************************************************)
ArgsWorld ==
    [fusions |-> {"f"},
     calls |-> {<<CupyInt32>>, <<CupyInt32, PrimInt>>,
                <<CupyInt32, OtherObject>>, <<HostFloat64>>,
                <<GenericFloat64>>, <<HostFloat64, OtherObject>>},
     ufuncs |-> {add_ufunc}, reductions |-> {sum_reduction},
     lits |-> {}, outs |-> FALSE, extras |-> {FALSE},
     axes |-> {None}, tuples |-> FALSE]

NextArgs == \E t \in Threads : Step(t, ArgsWorld)

SpecArgs == Init /\ [][NextArgs]_vars

(***************************************************************************)
(* SpecConc: two threads calling fused functions concurrently.             *)
(***************************************************************************)
ConcWorld ==
    [fusions |-> Fusions,
     calls |-> {<<CupyInt32>>},
     ufuncs |-> {add_ufunc}, reductions |-> {sum_reduction},
     lits |-> {LitArg("int", 1)}, outs |-> FALSE, extras |-> {FALSE},
     axes |-> {None}, tuples |-> FALSE]

InitConc == InitWith([t \in Threads |-> MaxConcSteps])

NextConc == \E t \in Threads : Step(t, ConcWorld)

SpecConc == InitConc /\ [][NextConc]_vars

(***************************************************************************)
(* SpecTrace: one thread tracing one function of an integer array with     *)
(* integer and float literals.                                             *)
(***************************************************************************)
TraceWorld ==
    [fusions |-> {"f"},
     calls |-> {<<CupyInt32>>, <<Cupy("b", 2)>>},
     ufuncs |-> {add_ufunc}, reductions |-> {sum_reduction},
     lits |-> {LitArg("int", 1), LitArg("int", 300), LitArg("float", 3)},
     outs |-> FALSE, extras |-> {FALSE},
     axes |-> {None, Some([tuple |-> FALSE, vals |-> <<0>>])},
     tuples |-> FALSE]

InitTrace == InitWith([t \in Threads |-> IF t = 1 THEN MaxTraceSteps ELSE 0])

NextTrace == \E t \in Threads : Step(t, TraceWorld)

SpecTrace == InitTrace /\ [][NextTrace]_vars

(***************************************************************************)
(* SpecOut: one thread tracing one function of two arguments that calls a  *)
(* ufunc with output arguments, in-place calls among them.                 *)
(***************************************************************************)
OutWorld ==
    [fusions |-> {"f"},
     calls |-> {<<CupyInt32, Cupy("b", 2)>>, <<CupyInt32, PrimInt>>},
     ufuncs |-> {add_ufunc}, reductions |-> {sum_reduction},
     lits |-> {}, outs |-> TRUE, extras |-> {FALSE},
     axes |-> {None}, tuples |-> FALSE]

NextOut == \E t \in Threads : Step(t, OutWorld)

SpecOut == InitTrace /\ [][NextOut]_vars

(***************************************************************************)
(* SpecResolve: one thread tracing one function that calls a ufunc with a  *)
(* float overload and one without on an integer array, an integer scalar   *)
(* and a float literal.                                                    *)
(***************************************************************************)
ResolveWorld ==
    [fusions |-> {"f"},
     calls |-> {<<CupyInt32>>, <<CupyInt32, PrimInt>>},
     ufuncs |-> {add_ufunc, bitwise_and_ufunc},
     reductions |-> {sum_reduction},
     lits |-> {LitArg("float", 3)}, outs |-> FALSE, extras |-> {FALSE},
     axes |-> {None}, tuples |-> FALSE]

NextResolve == \E t \in Threads : Step(t, ResolveWorld)

SpecResolve == InitTrace /\ [][NextResolve]_vars

(***************************************************************************)
(* SpecShadow: one thread tracing one function that reduces along given    *)
(* axes and converts, indexes and assigns its shadows.                     *)
(***************************************************************************)
ShadowWorld ==
    [fusions |-> {"f"},
     calls |-> {<<Cupy("b", 2)>>, <<CupyInt32, PrimInt>>},
     ufuncs |-> {add_ufunc}, reductions |-> {sum_reduction},
     lits |-> {}, outs |-> FALSE, extras |-> {FALSE},
     axes |-> {None,
               Some([tuple |-> FALSE, vals |-> <<0>>]),
               Some([tuple |-> FALSE, vals |-> <<5>>]),
               Some([tuple |-> TRUE, vals |-> <<0, 0>>]),
               Some([tuple |-> TRUE, vals |-> <<0, 1, 2>>])},
     tuples |-> FALSE]

NextShadow == \E t \in Threads : StepShadow(t, ShadowWorld)

SpecShadow == InitTrace /\ [][NextShadow]_vars

(***************************************************************************)
(* SpecKind: one thread tracing one function that calls a three-input      *)
(* ufunc on arrays and scalars of every kind, a scalar with a constant     *)
(* among them.                                                             *)
(***************************************************************************)
KindWorld ==
    [fusions |-> {"f"},
     calls |-> {<<Cupy("b", 1),
                  [cat |-> "prim", dtype |-> TypeDType("bool"), ndim |-> 0],
                  GenericFloat64>>,
                <<Cupy("?", 1), Cupy("d", 1), PrimInt>>},
     ufuncs |-> {clip_ufunc}, reductions |-> {sum_reduction},
     lits |-> {LitArg("int", 300)}, outs |-> FALSE, extras |-> {FALSE},
     axes |-> {None}, tuples |-> FALSE]

InitShort == InitWith([t \in Threads |-> IF t = 1 THEN MaxShortSteps ELSE 0])

NextKind == \E t \in Threads : Step(t, KindWorld)

SpecKind == InitShort /\ [][NextKind]_vars

(***************************************************************************)
(* SpecEmit: one thread tracing one function of an integer and a complex   *)
(* array that calls a ufunc, with any value as its output, or a reduction, *)
(* and returns a shadow, a tuple, nothing or another value; numpy.float32(2)*)
(* is the host scalar it passes or returns in a tuple.                     *)
(***************************************************************************)
EmitWorld ==
    [fusions |-> {"f"},
     calls |-> {<<CupyInt32, Cupy("D", 1)>>},
     ufuncs |-> {add_ufunc}, reductions |-> {sum_reduction, all_reduction},
     lits |-> {LitArg("f", 2)}, outs |-> TRUE, extras |-> {FALSE},
     axes |-> {None}, tuples |-> TRUE]

NextEmit == \E t \in Threads : Step(t, EmitWorld)

SpecEmit == InitShort /\ [][NextEmit]_vars

(***************************************************************************)
(* SpecVar: one _FusionVarCUDA object of any dtype, with or without a      *)
(* constant, on which mutate and declaration are called in any order.      *)
(***************************************************************************)
\* the constants a variable may carry: none, or a numpy scalar of its dtype
VarConsts(d) == {None} \cup {Some([ty |-> d, v |-> v]) : v \in {0, 1}}

InitVar ==
    /\ active = [s \in Threads |-> None]
    /\ \E d \in DTypes : \E c \in VarConsts(d) :
          hist = [t \in Threads |->
                    IF t = 1 THEN Some(_fresh_local(NewHistory, d, c, t).h)
                    ELSE None]
    /\ memo = [f \in Fusions |-> <<>>]
    /\ stack = [t \in Threads |-> <<>>]
    /\ exc = [t \in Threads |-> "none"]
    /\ pool = [t \in Threads |-> {}]
    /\ fuel = [t \in Threads |-> 0]
    /\ out = [t \in Threads |-> None]
    /\ last = [t \in Threads |-> Did("none", "", <<>>, NoKwargs, "none")]
    /\ seen = [f \in Fusions |-> <<>>]

\* v.mutate() on the variable of thread t's history
mutate(t) ==
    /\ hist[t] # None
    /\ hist' = [hist EXCEPT ![t] = Some(Mutate(hist[t][1], 1))]
    /\ Note(t, "mutate", "", <<>>)
    /\ UNCHANGED <<active, memo, stack, exc, pool, fuel, out, seen>>

\* v.declaration() on the variable of thread t's history; out holds the
\* text it returns
Declare(t) ==
    /\ hist[t] # None
    /\ out' = [out EXCEPT ![t] = Some(declaration(hist[t][1].vars[1]))]
    /\ Note(t, "declaration", "", <<>>)
    /\ UNCHANGED <<active, hist, memo, stack, exc, pool, fuel, seen>>

NextVar == \E t \in Threads : mutate(t) \/ Declare(t)

SpecVar == InitVar /\ [][NextVar]_vars

(***************************************************************************)
(* Properties.  A step of thread t enters a Fusion.__call__ when it pushes *)
(* a frame and leaves one when it pops a frame.                            *)
(***************************************************************************)
Enters(t) == Len(stack'[t]) = Len(stack[t]) + 1
Entered(t) == stack'[t][Len(stack'[t])]
Leaves(t) == Len(stack'[t]) = Len(stack[t]) - 1
Left(t) == out'[t][1]

\* the operations a history holds
OpsOf(h) == Range(h.op_list) \cup Range(h.postmap_op_list)
NumOps(h) == Len(h.op_list) + Len(h.postmap_op_list)

\* the operation recorded last
LastOp(h) ==
    IF h.postmap_op_list # <<>> THEN h.postmap_op_list[Len(h.postmap_op_list)]
    ELSE h.op_list[Len(h.op_list)]

\* C1: a call made outside a trace whose signature equals that of an
\* earlier call that compiled successfully, with no clear_cache since,
\* creates no history, does not invoke the user function and compiles no
\* kernel; it launches the (kernel, kwargs) pair the earlier call stored.
C1_HitStep(t) ==
    /\ (/\ Enters(t)
        /\ ~InTrace(t)
        /\ ParamsInfo(Entered(t).args) \in DOMAIN seen[Entered(t).f])
       => /\ Entered(t).at = "launch"
          /\ Entered(t).invoked = 0
          /\ ~Entered(t).installed
          /\ ~Entered(t).compiled
          /\ exc'[t] = "none"
          /\ hist' = hist /\ active' = active /\ memo' = memo
    /\ (/\ stack[t] # <<>>
        /\ Top(t).at = "launch"
        /\ ~Top(t).compiled)
       => /\ Leaves(t)
          /\ Left(t).how = "returned"
          /\ ParamsInfo(Top(t).args) \in DOMAIN seen[Top(t).f]
          /\ Left(t).launched =
               Some(seen[Top(t).f][ParamsInfo(Top(t).args)].entry)
          /\ Left(t).invoked = 0
          /\ ~Left(t).installed
          /\ ~Left(t).compiled
          /\ hist' = hist /\ active' = active /\ memo' = memo

\* C1: every step of every thread satisfies the cache-hit property
C1_CacheHit == [][\A t \in Threads : C1_HitStep(t)]_vars

C1_Witness ==
    \E t \in Threads :
        /\ out[t] # None
        /\ out[t][1].kind = "fused"
        /\ out[t][1].how = "returned"
        /\ out[t][1].launched # None
        /\ ~out[t][1].compiled
        /\ out[t][1].invoked = 0

\* an error propagates out of the tracing section of thread t
TraceFailed(t) ==
    /\ exc[t] # "none"
    /\ stack[t] # <<>>
    /\ Top(t).kind = "fused"
    /\ Top(t).at = "func"

\* C2: when an error is raised while tracing or emitting on a cache miss,
\* the call raises that error, launches no kernel, and the memo holds no
\* entry for the signature of the call afterwards; no step of the trace
\* other than a clear_cache of the user function changes any memo.
C2_FailStep(t) ==
    /\ (InTrace(t) /\ InTrace(t)' /\ last'[t].op # "clear") => memo' = memo
    /\ TraceFailed(t)
       => /\ Leaves(t)
          /\ Left(t).how = "raised"
          /\ Left(t).exc = exc[t]
          /\ Left(t).launched = None
          /\ ~Left(t).compiled
          /\ memo' = memo
          /\ ParamsInfo(Top(t).args) \notin DOMAIN memo'[Top(t).f]

\* C2: every step of every thread satisfies the failed-trace property
C2_NoPartialCache == [][\A t \in Threads : C2_FailStep(t)]_vars

C2_Witness ==
    \E t \in Threads :
        /\ out[t] # None
        /\ out[t][1].kind = "fused"
        /\ out[t][1].how = "raised"
        /\ out[t][1].installed
        /\ memo[out[t][1].f] # <<>>
        /\ ParamsInfo(out[t][1].args) \notin DOMAIN memo[out[t][1].f]

\* C3: a thread has an active history exactly while it is inside the
\* tracing section of an outermost Fusion call, and a ufunc or reduction
\* call is recorded in a trace exactly when made there: after the call has
\* returned or raised it goes to the runtime ufunc.
C3_SlotScoped ==
    \A t \in Threads :
        /\ HasHistory(t) <=> InTrace(t)
        /\ last[t].op \in {"ufunc", "reduction"}
           => (last[t].route = "trace" <=> InTrace(t))
        /\ last[t].op \in {"ufunc", "reduction"}
           => (last[t].route = "runtime" <=> ~InTrace(t))

C3_Witness ==
    \E t \in Threads :
        /\ out[t] # None
        /\ out[t][1].kind = "fused"
        /\ out[t][1].how = "raised"
        /\ out[t][1].installed
        /\ stack[t] = <<>>
        /\ ~HasHistory(t)
        /\ last[t].op = "ufunc"
        /\ last[t].route = "runtime"

\* C4: in a trace that has recorded a reduction, a reduction call on a
\* shadow, post-map or pre-map, fails with NotImplementedError and leaves
\* the recorded reduction as it was.
C4_SecondStep(t) ==
    (/\ InTrace(t)
     /\ hist[t] # None
     /\ hist[t][1].reduce_op # None
     /\ fuel'[t] < fuel[t]
     /\ last'[t].op = "reduction"
     /\ Len(last'[t].args) = 1
     /\ last'[t].args[1].t = "shadow")
    => /\ exc'[t] = "NotImplementedError"
       /\ hist'[t][1].reduce_op = hist[t][1].reduce_op
       /\ hist'[t][1].reduce_identity = hist[t][1].reduce_identity
       /\ hist'[t][1].reduce_kwargs = hist[t][1].reduce_kwargs
       /\ hist'[t][1].premap_ret = hist[t][1].premap_ret

\* C4: every reduction call after the first fails with NotImplementedError
C4_SecondReduction == [][\A t \in Threads : C4_SecondStep(t)]_vars

\* C5: under every interleaving of two threads, a thread inside a trace
\* has its own history installed, every variable and operation of a
\* history was created by the thread that installed it, and a call is
\* recorded in a trace only when the calling thread is inside its own.
C5_Independent ==
    \A t \in Threads :
        /\ InTrace(t) => (active[Slot(t)] = Some(t) /\ hist[t] # None)
        /\ hist[t] # None
           => /\ \A i \in DOMAIN hist[t][1].vars : hist[t][1].vars[i].by = t
              /\ \A op \in OpsOf(hist[t][1]) : op.by = t
        /\ (last[t].op \in {"ufunc", "reduction"} /\ last[t].route = "trace")
           => InTrace(t)

C5_Witness ==
    \A t \in Threads :
        /\ InTrace(t)
        /\ hist[t] # None
        /\ Len(hist[t][1].op_list) >= 1

\* C6: a Fusion called while a trace is active on the calling thread calls
\* the underlying function on the given arguments; it creates no history
\* and changes no memo, the ufuncs the inner function calls are recorded in
\* the outer history, and that history is still installed when the inner
\* call returns or raises.
C6_InnerStep(t) ==
    /\ (Enters(t) /\ InTrace(t))
       => /\ Entered(t).kind = "nested"
          /\ Entered(t).at = "func"
          /\ Entered(t).invoked = 1
          /\ Entered(t).args = last'[t].args
          /\ ~Entered(t).installed
          /\ hist' = hist /\ active' = active /\ memo' = memo
    /\ (/\ stack[t] # <<>>
        /\ Top(t).kind = "nested"
        /\ last'[t].op = "ufunc")
       => /\ last'[t].route = "trace"
          /\ active' = active
          /\ exc'[t] = "none"
             => /\ NumOps(hist'[t][1]) = NumOps(hist[t][1]) + 1
                /\ LastOp(hist'[t][1]).by = t
    /\ (Leaves(t) /\ Top(t).kind = "nested")
       => /\ active'[Slot(t)] = Some(t)
          /\ hist'[t] = hist[t]
          /\ hist[t] # None
          /\ memo' = memo
          /\ InTrace(t)'

\* C6: every step of every thread satisfies the inner-call property
C6_NestedBypass == [][\A t \in Threads : C6_InnerStep(t)]_vars

C6_Witness ==
    \E t \in Threads :
        /\ out[t] # None
        /\ out[t][1].kind = "nested"
        /\ out[t][1].how = "returned"
        /\ InTrace(t)
        /\ HasHistory(t)
        /\ NumOps(hist[t][1]) >= 1

NoCupy(args) == \A i \in DOMAIN args : args[i].cat # "cupy"

\* C7: a Fusion called outside a trace with no accelerator array among its
\* arguments calls the underlying function once on those arguments and
\* returns its result; the call installs no history, compiles no kernel
\* and leaves every memo unchanged.
C7_HostStep(t) ==
    /\ (Enters(t) /\ ~InTrace(t) /\ NoCupy(Entered(t).args))
       => /\ Entered(t).kind = "host"
          /\ Entered(t).at = "func"
          /\ Entered(t).invoked = 1
          /\ Entered(t).args = last'[t].args
          /\ ~Entered(t).installed
          /\ ~Entered(t).compiled
          /\ exc'[t] = "none"
          /\ hist' = hist /\ active' = active /\ memo' = memo
          /\ ~HasHistory(t)'
    /\ (stack[t] # <<>> /\ Top(t).kind = "host") => ~HasHistory(t)
    /\ (Leaves(t) /\ Top(t).kind = "host")
       => /\ Left(t).invoked = 1
          /\ Left(t).launched = None
          /\ ~Left(t).installed
          /\ ~Left(t).compiled
          /\ exc[t] = "none" => Left(t).how = "returned"
          /\ hist' = hist /\ active' = active /\ memo' = memo
          /\ ~HasHistory(t)'

\* C7: every step of every thread satisfies the host-bypass property
C7_HostBypass == [][\A t \in Threads : C7_HostStep(t)]_vars

C7_Witness ==
    \E t \in Threads :
        /\ out[t] # None
        /\ out[t][1].kind = "host"
        /\ out[t][1].how = "returned"
        /\ out[t][1].invoked = 1
        /\ NoCupy(out[t][1].args)
        /\ ~HasHistory(t)

\* some argument is not an accelerator array, a host array, a numeric
\* scalar object or a primitive
SomeOtherType(args) ==
    \E i \in DOMAIN args :
        args[i].cat \notin {"cupy", "host", "generic", "prim"}

\* C8 as stated: every call with an argument of another type is rejected
\* with TypeError before the user function runs, whatever the other
\* arguments are.
C8_AlwaysRejected ==
    [][\A t \in Threads :
         (Enters(t) /\ SomeOtherType(Entered(t).args))
         => (exc'[t] = "TypeError" /\ Entered(t).invoked = 0)]_vars

\* C8: a call made outside a trace with at least one accelerator array
\* among its arguments and some argument of another type is rejected with
\* TypeError before the user function runs: no history is installed, no
\* memo changes and the call raises the TypeError.
C8_RejectStep(t) ==
    /\ (/\ Enters(t)
        /\ ~InTrace(t)
        /\ ~NoCupy(Entered(t).args)
        /\ SomeOtherType(Entered(t).args))
       => /\ exc'[t] = "TypeError"
          /\ Entered(t).at = "check"
          /\ Entered(t).invoked = 0
          /\ ~Entered(t).installed
          /\ hist' = hist /\ active' = active /\ memo' = memo
    /\ (stack[t] # <<>> /\ Top(t).at = "check")
       => /\ Leaves(t)
          /\ Left(t).how = "raised"
          /\ Left(t).exc = "TypeError"
          /\ Left(t).invoked = 0
          /\ Left(t).launched = None
          /\ hist' = hist /\ active' = active /\ memo' = memo

\* C8: every step of every thread satisfies the rejection property
C8_RejectedWhenFusing == [][\A t \in Threads : C8_RejectStep(t)]_vars

C8_Witness ==
    \E t \in Threads :
        /\ out[t] # None
        /\ out[t][1].how = "raised"
        /\ out[t][1].exc = "TypeError"
        /\ out[t][1].invoked = 0
        /\ ~NoCupy(out[t][1].args)
        /\ SomeOtherType(out[t][1].args)

\* the dtype and rank of an argument: rank -1 for a scalar, the real rank
\* for an array
DTypeAndRank(arg) ==
    <<arg.dtype, IF arg.cat \in {"cupy", "host"} THEN arg.ndim ELSE -1>>

\* C9: the memo key of a fused call holds the dtype and rank of each
\* argument, rank -1 exactly for scalars, and a kernel is launched only
\* for arguments whose dtypes and ranks are those it was compiled for.
C9_KeyRecordsRank ==
    \A t \in Threads :
        /\ \A i \in DOMAIN stack[t] :
              (stack[t][i].kind = "fused" /\ stack[t][i].at # "check")
              => \A j \in DOMAIN stack[t][i].args :
                    ParamsInfo(stack[t][i].args)[j] =
                       DTypeAndRank(stack[t][i].args[j])
        /\ \A i \in DOMAIN stack[t] :
              (/\ stack[t][i].kind = "fused"
               /\ stack[t][i].at = "launch"
               /\ ParamsInfo(stack[t][i].args) \in DOMAIN seen[stack[t][i].f])
              => LET c == seen[stack[t][i].f][ParamsInfo(stack[t][i].args)]
                 IN  [j \in DOMAIN c.args |-> DTypeAndRank(c.args[j])] =
                     [j \in DOMAIN stack[t][i].args |->
                        DTypeAndRank(stack[t][i].args[j])]

\* the integer v is a value of the integer dtype d (every integer of the
\* model is a value of the signed dtypes of four bytes and more)
Fits(v, d) ==
    IF Kind(d) = "u"
    THEN 0 <= v /\ (ItemSize(d) >= 4 \/ v < 2 ^ (8 * ItemSize(d)))
    ELSE \/ ItemSize(d) >= 4
         \/ (-(2 ^ (8 * ItemSize(d) - 1)) <= v
             /\ v < 2 ^ (8 * ItemSize(d) - 1))

IsIntArray(a) ==
    a.t = "shadow" /\ a.s.ndim >= 0 /\ Kind(a.s.dtype) \in {"i", "u"}

\* the overload C10 names for an integer array a and a literal l
C10_Overload(a, l, op) ==
    /\ (l.c.ty = "int" /\ Fits(l.c.v, a.s.dtype))
       => op.submodule.dtypes = <<a.s.dtype, a.s.dtype, a.s.dtype>>
    /\ l.c.ty = "float" => op.submodule.dtypes = <<"d", "d", "d">>

\* C10: a ufunc traced on an integer array shadow and a scalar literal
\* records the overload of the array's dtype when the literal is an
\* integer that fits that dtype, and the float64 overload when the
\* literal is a float.
C10_Step(t) ==
    (/\ fuel'[t] < fuel[t]
     /\ last'[t].op = "ufunc"
     /\ last'[t].route = "trace"
     /\ exc'[t] = "none"
     /\ Len(last'[t].args) = 2)
    => /\ (IsIntArray(last'[t].args[1]) /\ last'[t].args[2].t = "lit")
          => C10_Overload(last'[t].args[1], last'[t].args[2],
                          LastOp(hist'[t][1]))
       /\ (IsIntArray(last'[t].args[2]) /\ last'[t].args[1].t = "lit")
          => C10_Overload(last'[t].args[2], last'[t].args[1],
                          LastOp(hist'[t][1]))

\* C10: every traced ufunc call on an integer array and a literal records
\* the overload the min-scalar rule gives
C10_MinScalar == [][\A t \in Threads : C10_Step(t)]_vars

C10_Witness ==
    \E t \in Threads :
        /\ InTrace(t)
        /\ exc[t] = "none"
        /\ last[t].op = "ufunc"
        /\ last[t].route = "trace"
        /\ Len(last[t].args) = 2
        /\ last[t].args[1].t = "shadow"
        /\ last[t].args[2] = LitArg("int", 1)
        /\ last[t].args[1].s.dtype = "i"
        /\ last[t].args[1].s.ndim >= 0
        /\ LastOp(hist[t][1]).submodule.dtypes = <<"i", "i", "i">>

\* the descriptor a traced call names
UfuncNamed(name) ==
    CHOOSE u \in {add_ufunc, copy_ufunc, bitwise_and_ufunc, clip_ufunc} :
        u.name = name

\* thread t's step is a ufunc call recorded into its history
UfuncStep(t) ==
    /\ fuel'[t] < fuel[t]
    /\ last'[t].op = "ufunc"
    /\ last'[t].route = "trace"

\* the arguments of the call of the step, lifted to shadows
Lifted(t) == GetFusionVars(hist[t][1], last'[t].args, t)

\* the input shadows of the call of the step
InVars(t) == SubSeq(Lifted(t).ret, 1, UfuncNamed(last'[t].fn).nin)

\* position k of the table passes the castability test of the call
Passes(t, k) ==
    LET ufunc == UfuncNamed(last'[t].fn)
    IN  can_cast(Lifted(t).h, InVars(t), ufunc.ops[k].ins, ufunc.nin)

\* the step appends no operation and no submodule
NothingRecorded(t) ==
    /\ hist'[t][1].op_list = hist[t][1].op_list
    /\ hist'[t][1].postmap_op_list = hist[t][1].postmap_op_list
    /\ hist'[t][1].submodules = hist[t][1].submodules

C11_Step(t) ==
    LET ufunc == UfuncNamed(last'[t].fn)
    IN  (UfuncStep(t) /\ Lifted(t).err = "none")
        => /\ exc'[t] = "none"
              => \E k \in DOMAIN ufunc.ops :
                    /\ Passes(t, k)
                    /\ \A j \in 1 .. k - 1 : ~Passes(t, j)
                    /\ LastOp(hist'[t][1]).submodule.dtypes
                         = ufunc.ops[k].ins \o ufunc.ops[k].outs
                    /\ NumOps(hist'[t][1]) = NumOps(hist[t][1]) + 1
           /\ (\A k \in DOMAIN ufunc.ops : ~Passes(t, k))
              => /\ exc'[t] # "none"
                 /\ Len(last'[t].args) = ufunc.nin => exc'[t] = "TypeError"
                 /\ NothingRecorded(t)

\* C11: a traced ufunc call that succeeds records the first overload of the
\* ufunc's table, in declared order, whose input dtypes pass the selected
\* castability test; a call none of whose overloads passes fails, with a
\* TypeError when it reaches the resolution, and appends no operation to
\* either operation list and no entry to the submodule map.
C11_FirstOverload == [][\A t \in Threads : C11_Step(t)]_vars

\* an integer array was added to itself, which resolved to the sixth
\* overload, and then and-ed with a float, which no overload accepts
C11_Witness ==
    \E t \in Threads :
        /\ InTrace(t)
        /\ exc[t] = "TypeError"
        /\ last[t].op = "ufunc"
        /\ last[t].fn = "cupy_bitwise_and"
        /\ Len(last[t].args) = 2
        /\ last[t].args[1].t = "shadow"
        /\ last[t].args[2] = LitArg("float", 3)
        /\ NumOps(hist[t][1]) = 1
        /\ LastOp(hist[t][1]).submodule.dtypes = <<"i", "i", "i">>

\* some argument is a shadow of the phase the history h is not in
WrongPhase(h, args) ==
    \E i \in DOMAIN args :
        args[i].t = "shadow" /\ args[i].s.post # _has_reduction(h)

\* thread t's step is the return of the traced function
ReturnStep(t) ==
    /\ last'[t].op = "return"
    /\ stack[t] # <<>>
    /\ Top(t).kind = "fused"
    /\ Top(t).at = "func"

\* the variables of each phase
PremapVars(h) == Range(h.param_list) \cup Range(h.local_list)
PostmapVars(h) ==
    Range(h.postmap_local_list)
    \cup (IF h.postmap_param = None THEN {} ELSE {h.postmap_param[1]})

C12_Step(t) ==
    /\ (UfuncStep(t) /\ WrongPhase(hist[t][1], last'[t].args))
       => /\ exc'[t] # "none"
          /\ NothingRecorded(t)
    /\ (ReturnStep(t) /\ WrongPhase(hist[t][1], last'[t].args))
       => /\ exc'[t] # "none"
          /\ memo' = memo
          /\ NothingRecorded(t)

C12_InPhase(h) ==
    /\ \A i \in DOMAIN h.op_list :
          Range(h.op_list[i].args) \subseteq PremapVars(h)
    /\ \A i \in DOMAIN h.postmap_op_list :
          Range(h.postmap_op_list[i].args) \subseteq PostmapVars(h)

\* C12: a ufunc call, or the emission of the return values, that is given
\* a shadow of the other phase (a pre-map shadow once a reduction is set, a
\* post-map shadow while none is set) fails with an error and records no
\* operation; hence every recorded operation has all its arguments among
\* the variables of the phase of the list it was appended to.
C12_PhasesNeverMix ==
    /\ [](\A t \in Threads : hist[t] # None => C12_InPhase(hist[t][1]))
    /\ [][\A t \in Threads : C12_Step(t)]_vars

\* after a reduction a ufunc was given the pre-map argument and failed
C12_Witness ==
    \E t \in Threads :
        /\ InTrace(t)
        /\ exc[t] = "Exception"
        /\ last[t].op = "ufunc"
        /\ hist[t][1].reduce_op # None
        /\ Len(last[t].args) = 2
        /\ last[t].args[1].t = "shadow"
        /\ ~last[t].args[1].s.post
        /\ last[t].args[2].t = "shadow"
        /\ last[t].args[2].s.post

\* the rank of an argument of a ufunc call: a host scalar has rank -1
ArgRank(a) == IF a.t = "shadow" THEN a.s.ndim ELSE -1

\* the user-supplied outputs of the call of thread t's step
OutArgs(t) ==
    LET args == last'[t].args
        nin == UfuncNamed(last'[t].fn).nin
    IN  {args[i] : i \in nin + 1 .. Len(args)}

\* some supplied output shadow has a rank below the maximum over the
\* arguments
LowRankOutput(t) ==
    \E o \in OutArgs(t) :
        /\ o.t = "shadow"
        /\ o.s.ndim < SetMax({ArgRank(last'[t].args[i]) :
                                i \in DOMAIN last'[t].args})

\* the step marks no variable mutable
NothingMutated(t) ==
    \A ref \in DOMAIN hist[t][1].vars :
        hist'[t][1].vars[ref].mutable = hist[t][1].vars[ref].mutable

\* C13 as stated: every traced ufunc call with an output shadow of a rank
\* below the maximum rank of its arguments fails with a ValueError, records
\* no operation and does not mark the output mutable.
C13_LowRankIsValueError ==
    [][\A t \in Threads :
         (UfuncStep(t) /\ LowRankOutput(t))
         => /\ exc'[t] = "ValueError"
            /\ NothingRecorded(t)
            /\ NothingMutated(t)]_vars

\* C13 amended: a traced ufunc call without other keywords whose arguments
\* are all of the current phase and whose supplied outputs are all array
\* shadows, one of them of a rank below the maximum rank of the arguments,
\* fails with a ValueError, records no operation and marks no variable
\* mutable; a call failing an earlier check fails with that check's error
\* and also records nothing and marks nothing.
C13_LowRankArrayOutput ==
    [][\A t \in Threads :
         (UfuncStep(t) /\ LowRankOutput(t))
         => /\ exc'[t] # "none"
            /\ NothingRecorded(t)
            /\ NothingMutated(t)
            /\ (/\ ~WrongPhase(hist[t][1], last'[t].args)
                /\ ~last'[t].kwargs.extra
                /\ \A o \in OutArgs(t) : o.t = "shadow" /\ o.s.ndim >= 0)
               => exc'[t] = "ValueError"]_vars

\* a rank-1 array shadow was given as the output of a call with a rank-2
\* argument
C13_Witness ==
    \E t \in Threads :
        /\ InTrace(t)
        /\ exc[t] = "ValueError"
        /\ last[t].op = "ufunc"
        /\ Len(last[t].args) = 3
        /\ last[t].args[2].t = "shadow"
        /\ last[t].args[2].s.ndim = 2
        /\ last[t].args[3].t = "shadow"
        /\ last[t].args[3].s.ndim = 1
        /\ NumOps(hist[t][1]) = 0

\* thread t's step is a reduction call recorded into its history
ReductionStep(t) ==
    /\ fuel'[t] < fuel[t]
    /\ last'[t].op = "reduction"
    /\ last'[t].route = "trace"

\* the axis argument names an axis outside the rank of the shadow s, or
\* names an axis twice
InvalidAxis(s, axis) ==
    /\ axis # None
    /\ LET n == IF s.ndim > 0 THEN s.ndim ELSE 0
           vals == axis[1].vals
       IN  \/ \E i \in DOMAIN vals : vals[i] >= n \/ vals[i] < -n
           \/ \E i, j \in DOMAIN vals : i # j /\ vals[i] = vals[j]

\* C14: a traced reduction, the first of its trace, of a pre-map shadow
\* with an axis argument that is out of bounds for the shadow's rank or
\* names an axis more than once fails with a ValueError.
C14_InvalidAxisRejected ==
    [][\A t \in Threads :
         (/\ ReductionStep(t)
          /\ hist[t][1].reduce_op = None
          /\ Len(last'[t].args) = 1
          /\ last'[t].args[1].t = "shadow"
          /\ ~last'[t].args[1].s.post
          /\ InvalidAxis(last'[t].args[1].s, last'[t].kwargs.axis))
         => exc'[t] = "ValueError"]_vars

\* thread t's step reads an element of a shadow by index
GetItemStep(t) ==
    /\ fuel'[t] < fuel[t]
    /\ last'[t].op = "getitem"

\* C15: reading an element of a shadow by index inside a traced function
\* fails with a ValueError.
C15_IndexReadIsValueError ==
    [][\A t \in Threads : GetItemStep(t) => exc'[t] = "ValueError"]_vars

\* thread t's step coerces a shadow to a boolean
BoolStep(t) ==
    /\ fuel'[t] < fuel[t]
    /\ last'[t].op = "bool"

\* C16: coercing a shadow, scalar or array, to a boolean during a trace
\* fails with a TypeError and leaves the history as it was.
C16_BoolIsTypeError ==
    [][\A t \in Threads :
         BoolStep(t) => (exc'[t] = "TypeError" /\ hist'[t] = hist[t])]_vars

\* thread t's step is x op= y on an array shadow x: the ufunc is called
\* with x as its first input and as its output
InPlaceStep(t) ==
    /\ UfuncStep(t)
    /\ Len(last'[t].args) = 3
    /\ last'[t].args[1].t = "shadow"
    /\ last'[t].args[1].s.ndim >= 0
    /\ last'[t].args[3] = last'[t].args[1]

\* what the call of the step returns
Returned(t) ==
    call_ufunc(hist[t][1], UfuncNamed(last'[t].fn), last'[t].args,
               last'[t].kwargs, t).ret

\* the variables the step creates
NewVars(t) == (DOMAIN hist'[t][1].vars) \ (DOMAIN hist[t][1].vars)

C17_Step(t) ==
    (InPlaceStep(t) /\ exc'[t] = "none")
    => LET x == last'[t].args[1].s
           op == LastOp(hist'[t][1])
       IN  /\ NumOps(hist'[t][1]) = NumOps(hist[t][1]) + 1
           /\ Len(op.submodule.out_params) = 1
           /\ Len(op.args) = 3
           /\ op.args[3] = x.var
           /\ \A ref \in NewVars(t) :
                 /\ last'[t].args[2].t = "lit"
                 /\ hist'[t][1].vars[ref].const = Some(last'[t].args[2].c)
           /\ Cardinality(NewVars(t)) <= 1
           /\ hist'[t][1].vars[x.var].mutable
           /\ Returned(t) = <<x>>
           /\ pool'[t] = pool[t]

\* the outputs of the operations of a history
OutputVars(h) ==
    UNION {{op.args[i] :
              i \in Len(op.submodule.in_params) + 1 .. Len(op.args)} :
           op \in OpsOf(h)}

\* the kernel stored by the return of thread t's step
StoredKernel(t) == memo'[Top(t).f][ParamsInfo(Top(t).args)][1]

C17_Emitted(t) ==
    (ReturnStep(t) /\ exc'[t] = "none")
    => \A i \in DOMAIN Top(t).args :
          hist[t][1].param_list[i] \in OutputVars(hist[t][1])
          => StoredKernel(t).in_params[i].non_const

\* C17: a successful in-place operator on an array shadow x records exactly
\* one operation, whose single output variable is x's own variable,
\* allocates no output local, marks x's variable mutable and returns the
\* shadow x itself; an input parameter written by an operation is declared
\* in the non-const form in the kernel's input parameters.
C17_InPlace ==
    [][\A t \in Threads : C17_Step(t) /\ C17_Emitted(t)]_vars

\* a function that applied an in-place operator to its first parameter
\* returned, and its kernel declares that parameter non-const
C17_Witness ==
    \E t \in Threads :
        /\ stack[t] # <<>>
        /\ Top(t).at = "launch"
        /\ Top(t).compiled
        /\ last[t].op = "return"
        /\ ParamsInfo(Top(t).args) \in DOMAIN memo[Top(t).f]
        /\ Len(Top(t).args) = 2
        /\ LET kernel == memo[Top(t).f][ParamsInfo(Top(t).args)][1]
           IN  /\ kernel.in_params[1].non_const
               /\ ~kernel.in_params[2].non_const
               /\ kernel.kind = "elementwise"
               /\ kernel.operation.body.nops = 1
               /\ kernel.operation.body.locals = <<>>

\* the variables a history holds in its lists and its post-map slot
ListedVars(h) == PremapVars(h) \cup PostmapVars(h)

\* how many entries the lists and the post-map slot hold
NumListed(h) ==
    Len(h.param_list) + Len(h.local_list) + Len(h.postmap_local_list)
    + (IF h.postmap_param = None THEN 0 ELSE 1)

C18_Dense(h) ==
    /\ ListedVars(h) = DOMAIN h.vars
    /\ NumListed(h) = Cardinality(ListedVars(h))
    /\ {h.vars[ref].index : ref \in ListedVars(h)} = 0 .. h.count - 1
    /\ \A r1, r2 \in ListedVars(h) :
          h.vars[r1].index = h.vars[r2].index => r1 = r2

\* C18: in every state of a trace the indices of the variables created so
\* far are pairwise distinct and are exactly 0 .. count-1, every variable
\* is in exactly one of param_list, local_list, postmap_local_list and the
\* postmap_param slot, and count never decreases.
C18_DenseIndices ==
    /\ [](\A t \in Threads : hist[t] # None => C18_Dense(hist[t][1]))
    /\ [][\A t \in Threads :
            (hist[t] # None /\ hist'[t] # None)
            => hist'[t][1].count >= hist[t][1].count]_vars

\* a trace holds an input parameter, the post-map parameter and two
\* post-map locals, one of them a constant
C18_Witness ==
    \E t \in Threads :
        /\ hist[t] # None
        /\ hist[t][1].count = 4
        /\ Len(hist[t][1].param_list) = 1
        /\ hist[t][1].postmap_param # None
        /\ Len(hist[t][1].postmap_local_list) = 2
        /\ hist[t][1].vars[hist[t][1].postmap_local_list[1]].const # None

\* the fields set_reduce_op writes
ReduceFields(h) ==
    <<h.reduce_op, h.reduce_identity, h.reduce_kwargs, h.premap_ret,
      h.postmap_param>>

\* s is r, or r with elements appended
Extends(s, r) == Len(s) >= Len(r) /\ SubSeq(s, 1, Len(r)) = r

C19_State(h) ==
    /\ \/ \A i \in 1 .. 5 : ReduceFields(h)[i] = None
       \/ \A i \in 1 .. 5 : ReduceFields(h)[i] # None
    /\ h.reduce_op = None
       => (h.postmap_op_list = <<>> /\ h.postmap_local_list = <<>>)

C19_Step(h, g) ==
    h.reduce_op # None
    => /\ ReduceFields(g) = ReduceFields(h)
       /\ g.op_list = h.op_list
       /\ g.local_list = h.local_list
       /\ Extends(g.postmap_op_list, h.postmap_op_list)
       /\ Extends(g.postmap_local_list, h.postmap_local_list)

\* C19: reduce_op, reduce_identity, reduce_kwargs, premap_ret and
\* postmap_param are set together and, once set, never written again in
\* the trace; from then on op_list and local_list do not change and every
\* operation and local is appended to postmap_op_list and
\* postmap_local_list, which are empty until then.
C19_OneWayPhases ==
    /\ [](\A t \in Threads : hist[t] # None => C19_State(hist[t][1]))
    /\ [][\A t \in Threads :
            (hist[t] # None /\ hist'[t] # None)
            => C19_Step(hist[t][1], hist'[t][1])]_vars

\* after a reduction a ufunc call on its result and a literal was recorded
\* in the post-map lists
C19_Witness ==
    \E t \in Threads :
        /\ hist[t] # None
        /\ hist[t][1].reduce_op # None
        /\ Len(hist[t][1].postmap_op_list) = 1
        /\ Len(hist[t][1].postmap_local_list) = 2
        /\ hist[t][1].op_list = <<>>
        /\ hist[t][1].local_list = <<>>
        /\ last[t].op = "ufunc"

\* the operations of a phase list are numbered by position and have one
\* argument for each parameter of their submodule
C20_List(ops) ==
    \A i \in DOMAIN ops :
        /\ ops[i].index = i - 1
        /\ Len(ops[i].args)
             = Len(ops[i].submodule.in_params)
               + Len(ops[i].submodule.out_params)

\* the operation a successful ufunc step records lists the variables of
\* the inputs in call order, then those of the outputs: the ones the call
\* supplied, then fresh ones of the dtypes of the remaining out_params
C20_Step(t) ==
    (UfuncStep(t) /\ exc'[t] = "none")
    => LET ufunc == UfuncNamed(last'[t].fn)
           op == LastOp(hist'[t][1])
           given == Lifted(t).ret
       IN  /\ Len(op.submodule.in_params) = ufunc.nin
           /\ Len(op.submodule.out_params) = ufunc.nout
           /\ \A i \in DOMAIN given : op.args[i] = given[i].var
           /\ \A i \in Len(given) + 1 .. Len(op.args) :
                 /\ op.args[i] \in NewVars(t)
                 /\ hist'[t][1].vars[op.args[i]].dtype
                      = op.submodule.out_params[i - ufunc.nin][1]

\* C20: every recorded operation has the nin input variables in call order
\* followed by the nout output variables in the order of the submodule's
\* out_params as its arguments, as many arguments as the submodule has
\* in_params and out_params, and its position in its phase list as index.
C20_OpShape ==
    /\ [](\A t \in Threads :
            hist[t] # None
            => /\ C20_List(hist[t][1].op_list)
               /\ C20_List(hist[t][1].postmap_op_list))
    /\ [][\A t \in Threads : C20_Step(t)]_vars

\* a second operation was recorded in the pre-map list, with a supplied
\* output that is not one of its inputs
C20_Witness ==
    \E t \in Threads :
        /\ hist[t] # None
        /\ exc[t] = "none"
        /\ Len(hist[t][1].op_list) = 2
        /\ last[t].op = "ufunc"
        /\ Len(last[t].args) = 3
        /\ last[t].args[3] # last[t].args[1]
        /\ last[t].args[3] # last[t].args[2]
        /\ hist[t][1].op_list[2].index = 1

C21_State(h) == \A ref \in OutputVars(h) : h.vars[ref].mutable

C21_Step(h, g) ==
    \A ref \in DOMAIN h.vars :
        h.vars[ref].mutable => (ref \in DOMAIN g.vars /\ g.vars[ref].mutable)

\* C21: in every state of a trace every variable in an output position of
\* a recorded operation is mutable, whether the call supplied it or
\* allocated it, and no step of the trace makes a mutable variable
\* immutable again.
C21_OutputsMutable ==
    /\ [](\A t \in Threads : hist[t] # None => C21_State(hist[t][1]))
    /\ [][\A t \in Threads :
            (hist[t] # None /\ hist'[t] # None)
            => C21_Step(hist[t][1], hist'[t][1])]_vars

\* one operation wrote a fresh local and another wrote an input parameter
\* the call supplied as its output
C21_Witness ==
    \E t \in Threads :
        /\ hist[t] # None
        /\ Len(hist[t][1].op_list) = 2
        /\ \E ref \in OutputVars(hist[t][1]) :
              ref \in Range(hist[t][1].param_list)
        /\ \E ref \in OutputVars(hist[t][1]) :
              ref \in Range(hist[t][1].local_list)

Declared(decls) == [i \in DOMAIN decls |-> decls[i].index]

\* how often x occurs in the sequence s
Count(s, x) == Cardinality({i \in DOMAIN s : s[i] = x})

\* the indices the operations of an emitted phase reference
Referenced(code) ==
    UNION {Range(code.ops[i].args) : i \in DOMAIN code.ops}

\* the declarations in scope of the one phase of an element-wise kernel
ElementwiseDecls(k) ==
    Declared(k.in_params) \o Declared(k.out_params)
    \o Declared(k.operation.body.locals)

\* the declarations of _pre_map and of _post_map of a reduction kernel
PremapDecls(k) ==
    k.preamble.pre_map.params \o Declared(k.preamble.pre_map.body.locals)
PostmapDecls(k) ==
    <<k.preamble.post_map.in_param>> \o k.preamble.post_map.params
    \o Declared(k.preamble.post_map.body.body.locals)

C23_Kernel(k) ==
    IF k.kind = "elementwise"
    THEN \A x \in Referenced(k.operation.body) :
            Count(ElementwiseDecls(k), x) = 1
    ELSE /\ \A x \in Referenced(k.preamble.pre_map.body) :
               /\ Count(PremapDecls(k), x) = 1
               /\ Count(PostmapDecls(k), x) = 0
         /\ \A x \in Referenced(k.preamble.post_map.body.body) :
               /\ Count(PostmapDecls(k), x) = 1
               /\ Count(PremapDecls(k), x) = 0

\* C23: in the kernel a successful trace stores, every variable an
\* operation of a phase references is declared exactly once in the code of
\* that phase, as a parameter, as a local of the phase or as the post-map
\* parameter, and is not a variable of the other phase.
C23_DeclaredOnce ==
    [][\A t \in Threads :
         (ReturnStep(t) /\ exc'[t] = "none") => C23_Kernel(StoredKernel(t))]_vars

\* a stored reduction kernel whose post-map code has one operation on the
\* post-map parameter and a constant local
C23_Witness ==
    \E f \in Fusions :
        \E key \in DOMAIN memo[f] :
            /\ memo[f][key][1].kind = "reduction"
            /\ memo[f][key][1].preamble.post_map.body.body.nops = 1
            /\ Len(memo[f][key][1].preamble.post_map.body.body.locals) = 2
            /\ memo[f][key][1].preamble.post_map.in_param
                 \in Referenced(memo[f][key][1].preamble.post_map.body.body)

\* the (ufunc name, dtype tuple) keys the recorded operations use
KeysUsed(h) == {<<op.submodule.name, op.submodule.dtypes>> : op \in OpsOf(h)}

C24_State(h) ==
    /\ DOMAIN h.submodules = KeysUsed(h)
    /\ \A op \in OpsOf(h) :
          h.submodules[<<op.submodule.name, op.submodule.dtypes>>]
            = op.submodule
    /\ \A op1, op2 \in OpsOf(h) :
          (/\ op1.submodule.name = op2.submodule.name
           /\ op1.submodule.dtypes = op2.submodule.dtypes)
          => /\ op1.submodule.in_params = op2.submodule.in_params
             /\ op1.submodule.out_params = op2.submodule.out_params
             /\ op1.submodule.op = op2.submodule.op

\* the submodule definitions in the source of a kernel
Definitions(k) ==
    IF k.kind = "elementwise" THEN k.preamble.submodules
    ELSE k.preamble.submodules.submodules

C24_Emitted(t) ==
    (ReturnStep(t) /\ exc'[t] = "none")
    => /\ {<<d.name, d.dtypes>> : d \in Definitions(StoredKernel(t))}
            = KeysUsed(hist[t][1])
       /\ Cardinality(Definitions(StoredKernel(t)))
            = Cardinality(KeysUsed(hist[t][1]))

\* C24: in every state of a trace the submodule map holds exactly one
\* submodule for each (ufunc name, dtype tuple) key the recorded operations
\* of both phases use, submodules with equal keys have the same parameter
\* lists and body, and the source of the kernel stored at the return holds
\* exactly one definition per key.
C24_OnePerKey ==
    /\ [](\A t \in Threads : hist[t] # None => C24_State(hist[t][1]))
    /\ [][\A t \in Threads : C24_Emitted(t)]_vars

\* a stored kernel with two operations of one key and one submodule
\* definition
C24_Witness ==
    \E f \in Fusions :
        \E key \in DOMAIN memo[f] :
            /\ memo[f][key][1].kind = "elementwise"
            /\ memo[f][key][1].operation.body.nops = 2
            /\ Cardinality(Definitions(memo[f][key][1])) = 1

\* the post-reduction rank of the argument s under the axis argument: the
\* rank of s, 0 for a scalar, less the number of axes named
PostReductionRank(s, axis) ==
    LET rank == IF s.ndim > 0 THEN s.ndim ELSE 0
    IN  IF axis = None THEN 0
        ELSE IF axis[1].tuple THEN rank - Len(axis[1].vals)
        ELSE rank - 1

\* the first overload of the table whose input type dtype d can be cast to
FirstCastable(raw, d) ==
    SetMin({k \in DOMAIN raw.ops : CanCast(d, raw.ops[k].in)})

\* thread t's step is a reduction call that succeeds
ReducedStep(t) ==
    /\ ReductionStep(t)
    /\ exc'[t] = "none"

\* the shadows the step hands to user code
NewShadows(t) == pool'[t] \ pool[t]

\* what C25 and its amendment share: one post-map shadow of the overload's
\* output dtype is returned and history.ndim is the post-reduction rank
C25_Common(t, r) ==
    LET s == last'[t].args[1].s
        raw == sum_reduction
    IN  /\ NewShadows(t) = {r}
        /\ r.post
        /\ r.var = hist'[t][1].postmap_param[1]
        /\ r.dtype = raw.ops[FirstCastable(raw, s.dtype)].out
        /\ hist'[t][1].vars[r.var].dtype = r.dtype
        /\ hist'[t][1].ndim
             = Some(PostReductionRank(s, last'[t].kwargs.axis))

\* C25 as stated: the shadow a traced reduction returns is post-map, has
\* the overload's output dtype and has the post-reduction rank, scalar when
\* no axis is given, and history.ndim is that rank.
C25_RankIsReducedRank ==
    [][\A t \in Threads :
         ReducedStep(t)
         => \E r \in NewShadows(t) :
               /\ C25_Common(t, r)
               /\ r.ndim = IF last'[t].kwargs.axis = None THEN -1
                           ELSE PostReductionRank(last'[t].args[1].s,
                                                  last'[t].kwargs.axis)]_vars

\* C25 amended: the shadow a traced reduction returns is post-map, has the
\* overload's output dtype, and is an array shadow of the post-reduction
\* rank when that rank is at least one and a scalar shadow (rank -1) when
\* it is zero, with or without an axis; history.ndim is the post-reduction
\* rank.
C25_RankOrScalar ==
    [][\A t \in Threads :
         ReducedStep(t)
         => \E r \in NewShadows(t) :
               /\ C25_Common(t, r)
               /\ LET n == PostReductionRank(last'[t].args[1].s,
                                             last'[t].kwargs.axis)
                  IN  r.ndim = IF n >= 1 THEN n ELSE -1]_vars

\* a rank-2 array was reduced along one axis and user code holds the
\* rank-1 post-map shadow
C25_Witness ==
    \E t \in Threads :
        /\ InTrace(t)
        /\ exc[t] = "none"
        /\ last[t].op = "reduction"
        /\ last[t].kwargs.axis = Some([tuple |-> FALSE, vals |-> <<0>>])
        /\ Len(last[t].args) = 1
        /\ last[t].args[1].t = "shadow"
        /\ last[t].args[1].s.ndim = 2
        /\ hist[t][1].ndim = Some(1)
        /\ \E r \in pool[t] : r.post /\ r.ndim = 1 /\ r.dtype = "l"


\* the kind scores of the scalar shadows among vs
ScalarKinds(vs) ==
    {_kind_score(Kind(vs[i].dtype)) :
       i \in {j \in DOMAIN vs : ~IsArrayVar(vs[j])}}

\* the kind scores of the array shadows among vs
ArrayKinds(vs) ==
    {_kind_score(Kind(vs[i].dtype)) :
       i \in {j \in DOMAIN vs : IsArrayVar(vs[j])}}

\* some array input has a kind score at least that of some scalar input
CoversSomeScalar(vs) ==
    \E s \in ScalarKinds(vs) : \E a \in ArrayKinds(vs) : a >= s

\* there is a scalar input and some array input has a kind score at least
\* that of every scalar input
CoversEveryScalar(vs) ==
    /\ ScalarKinds(vs) # {}
    /\ \E a \in ArrayKinds(vs) : \A s \in ScalarKinds(vs) : a >= s

\* the value a scalar shadow is tested by under the min-scalar rule
TestedValue(h, s) ==
    IF h.vars[s.var].const # None THEN h.vars[s.var].const[1]
    ELSE [ty |-> s.dtype, v |-> 0]

\* the overloads that pass the min-scalar rule, by position
MinScalarOps(h, vs, ufunc) ==
    {k \in DOMAIN ufunc.ops :
       \A i \in 1 .. ufunc.nin :
          IF IsArrayVar(vs[i]) THEN CanCast(vs[i].dtype, ufunc.ops[k].ins[i])
          ELSE CanCastValue(TestedValue(h, vs[i]), ufunc.ops[k].ins[i])}

\* the overloads that pass the uniform dtype-level rule, by position
UniformOps(vs, ufunc) ==
    {k \in DOMAIN ufunc.ops :
       \A i \in 1 .. ufunc.nin : CanCast(vs[i].dtype, ufunc.ops[k].ins[i])}

\* the call of the step resolved as the first overload of S, or failed when
\* S is empty
ResolvedAmong(t, S) ==
    LET ufunc == UfuncNamed(last'[t].fn)
    IN  IF S = {}
        THEN exc'[t] = "TypeError" /\ NothingRecorded(t)
        ELSE /\ exc'[t] = "none"
             /\ LastOp(hist'[t][1]).submodule.dtypes
                  = ufunc.ops[SetMin(S)].ins \o ufunc.ops[SetMin(S)].outs

\* every input of the call of the step was lifted, and the call has the
\* ufunc's number of inputs
KindStep(t) ==
    /\ UfuncStep(t)
    /\ Lifted(t).err = "none"
    /\ Len(last'[t].args) = UfuncNamed(last'[t].fn).nin

C26_Step(t, min_scalar) ==
    KindStep(t)
    => ResolvedAmong(t, IF min_scalar
                        THEN MinScalarOps(Lifted(t).h, InVars(t),
                                          UfuncNamed(last'[t].fn))
                        ELSE UniformOps(InVars(t), UfuncNamed(last'[t].fn)))

\* C26 as stated: a traced ufunc call resolves under the min-scalar rule
\* exactly when some input is a scalar shadow and some array input has a kind
\* score at least that scalar's, and under the uniform dtype-level rule
\* otherwise; under the min-scalar rule a scalar with a constant is tested
\* by its value and a scalar without one by zero of its dtype.
C26_SomeScalarCovered ==
    [][\A t \in Threads :
          KindStep(t) => C26_Step(t, CoversSomeScalar(InVars(t)))]_vars

\* C26 amended: a traced ufunc call resolves under the min-scalar rule
\* exactly when some input is a scalar shadow and some array input has a kind
\* score at least that of every scalar input (the greatest array kind score
\* is at least the greatest scalar kind score), and under the uniform
\* dtype-level rule otherwise; under the min-scalar rule a scalar with a
\* constant is tested by its value and a scalar without one by zero of its
\* dtype.
C26_EveryScalarCovered ==
    [][\A t \in Threads :
          KindStep(t) => C26_Step(t, CoversEveryScalar(InVars(t)))]_vars

\* an int8 array was clipped between a bool scalar parameter and the
\* literal 300: the min-scalar rule tested the literal by its value and
\* resolved the int16 overload
C26_Witness ==
    /\ last[1].op = "ufunc" /\ last[1].fn = "cupy_clip"
    /\ last[1].route = "trace"
    /\ exc[1] = "none"
    /\ Len(last[1].args) = 3
    /\ last[1].args[1].t = "shadow" /\ last[1].args[1].s.dtype = "b"
    /\ IsArrayVar(last[1].args[1].s)
    /\ last[1].args[2].t = "shadow" /\ last[1].args[2].s.dtype = "?"
    /\ ~IsArrayVar(last[1].args[2].s)
    /\ last[1].args[3] = LitArg("int", 300)
    /\ hist[1] # None
    /\ NumOps(hist[1][1]) = 1
    /\ LastOp(hist[1][1]).submodule.dtypes = <<"h", "h", "h", "h">>


\* the shadows thread t's step returns, null placeholders dropped
ReturnedShadows(t) == SelectSeq(last'[t].args, LAMBDA x : x.t = "shadow")

\* get_fusion from the return of the user function of the step on
Emission(t) ==
    get_fusion_end(hist[t][1], [kind |-> last'[t].fn, items |-> last'[t].args],
                   Len(Top(t).args), Top(t).f, t)

\* the final assignments of a kernel
FinalAssignments(k) ==
    IF k.kind = "elementwise" THEN k.operation.assign
    ELSE k.preamble.post_map.body.assign

C27_Outputs(t, rs, h, e, k) ==
    LET nin == Len(Top(t).args)
        outs == SubSeq(e.param_list, nin + 1, Len(e.param_list))
    IN  /\ Len(e.param_list) = nin + Len(rs)
        /\ SubSeq(e.param_list, 1, nin) = h.param_list
        /\ \A i \in DOMAIN rs :
              /\ outs[i] \notin DOMAIN h.vars
              /\ e.vars[outs[i]].dtype = rs[i].s.dtype
              /\ e.vars[outs[i]].index = h.count + i - 1
              /\ \A j \in DOMAIN rs : outs[i] = outs[j] => i = j
        /\ Len(k.in_params) = nin
        /\ k.out_params = [i \in DOMAIN rs |->
                             [dtype |-> rs[i].s.dtype,
                              index |-> e.vars[outs[i]].index]]
        /\ k.kind = (IF h.reduce_op = None THEN "elementwise"
                     ELSE "reduction")
        /\ FinalAssignments(k)
             = [i \in DOMAIN rs |->
                  [target |-> e.vars[outs[i]].index,
                   source |-> h.vars[rs[i].s.var].index]]

\* the value returned is a shadow, a tuple of shadows and null placeholders,
\* or nothing
ValidReturn(t) ==
    \/ last'[t].fn \in {"shadow", "none"}
    \/ /\ last'[t].fn = "tuple"
       /\ \A i \in DOMAIN last'[t].args : last'[t].args[i].t \in {"shadow", "nil"}

C27_Step(t) ==
    ReturnStep(t)
    => /\ ~ValidReturn(t)
          => /\ exc'[t] # "none"
             /\ memo' = memo
       /\ exc'[t] = "none"
          => C27_Outputs(t, ReturnedShadows(t), hist[t][1], Emission(t).h,
                         StoredKernel(t))

\* C27: when the traced function returns, get_fusion allocates exactly one
\* fresh parameter per non-null returned shadow, after the input parameters
\* and with the returned shadow's dtype, so that param_list is the inputs
\* followed by the outputs in return order; the kernel's final assignments
\* copy the i-th returned shadow's variable into the i-th output parameter,
\* in the element-wise body when no reduction is set and in the post-map
\* body when one is; a return value that is not a shadow, a tuple of shadows
\* or nothing is an error and stores no kernel.
C27_OutputsFollowInputs == [][\A t \in Threads : C27_Step(t)]_vars

\* C27 on the returns of shadows only: the output parameters and the final
\* assignments are as C27 states whenever the value returned is a shadow, a
\* tuple of shadows and null placeholders, or nothing, and a value that is
\* not a shadow, a tuple or nothing is a TypeError.
C27_ShadowReturns ==
    [][\A t \in Threads :
          /\ (ReturnStep(t) /\ ValidReturn(t)) => C27_Step(t)
          /\ (ReturnStep(t) /\ last'[t].fn = "other")
             => exc'[t] = "TypeError"]_vars

\* the function returned the tuple of a reduction's result and None: the
\* reduction kernel stored has one output parameter, assigned in the
\* post-map body
C27_Witness ==
    /\ last[1].op = "return" /\ last[1].fn = "tuple"
    /\ last[1].args[2] = Nil
    /\ exc[1] = "none"
    /\ \E key \in DOMAIN memo["f"] :
          LET k == memo["f"][key][1]
          IN  /\ k.kind = "reduction"
              /\ Len(k.in_params) = 2
              /\ Len(k.out_params) = 1
              /\ Len(k.preamble.post_map.body.assign) = 1
              /\ k.preamble.post_map.body.assign[1].target
                   = k.out_params[1].index


\* the variables of a history that carry a constant
ConstVars(h) == {ref \in DOMAIN h.vars : h.vars[ref].const # None}

\* no constant variable of thread t's trace is mutable, is an output of an
\* operation, is an array, or is wrapped by a shadow the traced function
\* holds
C28_State(t) ==
    hist[t] # None
    => /\ \A ref \in ConstVars(hist[t][1]) :
             /\ ~hist[t][1].vars[ref].mutable
             /\ ref \notin OutputVars(hist[t][1])
             /\ ref \in Range(hist[t][1].local_list)
                        \cup Range(hist[t][1].postmap_local_list)
       /\ \A s \in pool[t] : s.var \notin ConstVars(hist[t][1])

\* some output the call of the step supplies is not an array shadow
ScalarOutput(t) ==
    \E o \in OutArgs(t) : ~(o.t = "shadow" /\ o.s.ndim >= 0)

C28_Step(t) ==
    (UfuncStep(t) /\ ScalarOutput(t))
    => /\ exc'[t] # "none"
       /\ (/\ Lifted(t).err = "none"
           /\ ~last'[t].kwargs.extra
           /\ Len(last'[t].args) <= UfuncNamed(last'[t].fn).nin
                                      + UfuncNamed(last'[t].fn).nout)
          => exc'[t] = "TypeError"
       /\ NothingRecorded(t)
       /\ \A ref \in DOMAIN hist'[t][1].vars :
             hist'[t][1].vars[ref].mutable
             => (ref \in DOMAIN hist[t][1].vars
                 /\ hist[t][1].vars[ref].mutable)

\* C28: in every reachable state of a trace no variable that carries a
\* constant is mutable and none is an output of an operation: constants are
\* locals created by lifting host scalars, no shadow the function holds
\* wraps one, and a traced ufunc call with an output that is not an array
\* shadow fails, with a TypeError once its arguments are lifted and counted,
\* records nothing and marks no variable mutable.
C28_ConstantsNeverWritten ==
    /\ [](\A t \in Threads : C28_State(t))
    /\ [][\A t \in Threads : C28_Step(t)]_vars

\* numpy.float32(2) was passed as the output of an addition of the integer
\* array: the call failed with a TypeError and left the lifted constant
\* immutable
C28_Witness ==
    /\ last[1].op = "ufunc" /\ last[1].route = "trace"
    /\ Len(last[1].args) = 3
    /\ last[1].args[1].t = "shadow" /\ last[1].args[1].s.ndim = 1
    /\ last[1].args[3] = LitArg("f", 2)
    /\ exc[1] = "TypeError"
    /\ hist[1] # None
    /\ ConstVars(hist[1][1]) # {}
    /\ \A ref \in ConstVars(hist[1][1]) : ~hist[1][1].vars[ref].mutable


ReductionNamed(name) ==
    CHOOSE r \in {sum_reduction, all_reduction} : r.name = name

\* the overloads of the table whose input type dtype d can be cast to
CastableOps(raw, d) == {k \in DOMAIN raw.ops : CanCast(d, raw.ops[k].in)}

\* thread t's step is a traced reduction, the first of its trace, of a
\* pre-map shadow
FirstReductionStep(t) ==
    /\ ReductionStep(t)
    /\ hist[t][1].reduce_op = None
    /\ Len(last'[t].args) = 1
    /\ last'[t].args[1].t = "shadow"
    /\ ~last'[t].args[1].s.post

\* the step leaves the reduction state and the counter of the history as
\* they were
ReductionUnset(t) ==
    /\ ReduceFields(hist'[t][1]) = ReduceFields(hist[t][1])
    /\ hist'[t][1].count = hist[t][1].count

C29_Step(t, errors) ==
    FirstReductionStep(t)
    => LET raw == ReductionNamed(last'[t].fn)
           s == last'[t].args[1].s
           S == CastableOps(raw, s.dtype)
       IN  /\ S # {}
              => /\ hist'[t][1].reduce_op = Some(raw.ops[SetMin(S)])
                 /\ hist'[t][1].reduce_identity = Some(raw.identity)
                 /\ hist'[t][1].premap_ret = Some(s.var)
                 /\ hist'[t][1].vars[hist'[t][1].postmap_param[1]].dtype
                      = raw.ops[SetMin(S)].out
           /\ S = {}
              => /\ exc'[t] \in errors
                 /\ ReductionUnset(t)

\* C29: a traced reduction picks the first overload of its table whose input
\* type the argument's dtype can be cast to; when no overload is castable it
\* fails with a TypeError and leaves reduce_op, reduce_identity,
\* reduce_kwargs, premap_ret, postmap_param and count unchanged.
C29_NoOverloadIsTypeError ==
    [][\A t \in Threads : C29_Step(t, {"TypeError"})]_vars

\* C29 but for the kind of the error: the first castable overload is picked,
\* and a reduction without one fails, with an AttributeError, and leaves the
\* reduction state and count unchanged.
C29_NoOverloadFails ==
    [][\A t \in Threads : C29_Step(t, {"AttributeError"})]_vars

====
